---- MODULE Spec2Model ----
(***************************************************************************)
(* Motif classification of permutations by violated cover constraints,     *)
(* and the randomized check-order stability estimator                      *)
(* (scripts/motif_stability_test.py, scripts/order_invariant_analysis.py). *)
(***************************************************************************)
EXTENDS Integers, Sequences, FiniteSets, TLC

VARIABLES
    pc,              \* position of the script / of the function-call harness
    rows,            \* input table: the perm column of each row, a string
    K,               \* N_RANDOM_ORDERS, the number of sampled check-orders
    i,               \* enumerate(rows) index of the next row (0-based)
    perm,            \* parse_perm result of the current row
    violated,        \* violated-constraint set of the current row
    baseline_label,  \* classify_first_violated under the baseline order
    any_label,       \* classify_any_cover
    same_count,      \* samples whose label equals the baseline label
    modal_counts,    \* Counter: sequence of <<label, count>> in insertion order
    s,               \* samples drawn so far in the current sampling loop
    order,           \* the current (shuffled) check-order
    lab,             \* label of the current sample
    stability,       \* stability fraction, a normalised rational <<num, den>>
    modal_label,     \* most frequent sampled label
    perms,           \* output records appended so far
    draws,           \* number of random.shuffle calls since random.seed(0)
    run,             \* which execution of the script this is
    prev_perms,      \* output table of the previous execution
    labs,            \* labels of the samples classified so far, in sampling order
    parse_call,      \* argument of a parse_perm call: the tokens, the separator, the string
    jcall,           \* arguments and results of jaccard calls
    threshold,       \* args.jaccard_threshold, a rational <<num, den>>
    fraction,        \* args.consensus_fraction, a rational <<num, den>>
    n_nodes,         \* n_nodes handed to build_graph_components
    cluster_list,    \* load_cluster_members result: records sorted by (run_id, cluster_id)
    pairs,           \* build_pairwise_jaccard result: sequence of <<i, j, val>>
    adj,             \* build_graph_components: adjacency lists, one per vertex
    components,      \* build_graph_components result: sequence of sorted vertex lists
    consensus_groups,\* compute_consensus_for_component results, one per component
    consensus_csv,   \* rows written to consensus_motifs.csv
    summary_rows,    \* rows of the motif summary written by motif_stability_test.py
    kw_files,        \* what load_cluster_members found in the kw folder
    write_debug,     \* args.write_debug
    written,         \* names of the output tables the consensus builder has written
    epcall,          \* arguments and result of a compute_event_position_stats call
    df_can,          \* agreement reporter: the canonical table
    df_a,            \* agreement reporter: load_csv(PARSEA)
    df_b,            \* agreement reporter: load_csv(PARSEB)
    df,              \* agreement reporter: canonical table merged with the parse labels
    map_a,           \* build_mapping(df, 'cluster_parseA')
    map_b,           \* build_mapping(df, 'cluster_parseB')
    results,         \* agreement reporter: the results dict
    preserve_pa,     \* per_motif_preservation('parseA_mapped')
    preserve_pb      \* per_motif_preservation('parseB_mapped')

\* state of the consensus builder (scripts/aggregate_motif_stability.py) and of
\* the calls of parse_perm and jaccard
aggvars == << parse_call, jcall, threshold, fraction, n_nodes, cluster_list, pairs,
              adj, components, consensus_groups, consensus_csv >>

\* files and flags of the consensus builder
iovars == << kw_files, write_debug, written >>

\* state of the agreement reporter
\* (compute_segmentation_agreement_map_and_recompute.py) and of the calls of
\* compute_event_position_stats
repvars == << epcall, df_can, df_a, df_b, df, map_a, map_b, results, preserve_pa,
              preserve_pb >>

vars == << pc, rows, K, i, perm, violated, baseline_label, any_label, same_count,
           modal_counts, s, order, lab, stability, modal_label, perms, draws,
           run, prev_perms, labs, parse_call, jcall, threshold, fraction, n_nodes,
           cluster_list, pairs, adj, components, consensus_groups, consensus_csv,
           summary_rows, kw_files, write_debug, written, epcall, df_can, df_a, df_b, df,
           map_a, map_b, results, preserve_pa, preserve_pb >>

(***************************************************************************)
(* Bounds of the model.                                                    *)
(***************************************************************************)
MaxRows == 2        \* rows of the input table
MaxK == 2           \* sample count K ranges over 1..MaxK
MaxPermLen == 4     \* length of the permutations given to the detector
MaxSamples == 3     \* length of the label sequences given to the tally

(***************************************************************************)
(* Configuration constants of the scripts.                                 *)
(***************************************************************************)
COVERS == << <<1, 3>>, <<1, 4>>, <<1, 5>>,
             <<3, 8>>, <<4, 8>>, <<5, 6>>, <<6, 7>>, <<7, 8>>, <<8, 9>>,
             <<9, 10>>, <<10, 11>>, <<11, 12>> >>

CoverSet == { COVERS[k] : k \in DOMAIN COVERS }

FRONT == { <<1, 3>>, <<1, 4>>, <<1, 5>> }
BRE_SET == { <<3, 8>>, <<4, 8>>, <<5, 6>>, <<6, 7>>, <<7, 8>>, <<8, 9>> }
\* variant: the early subset is a set of its own, not the front subset
EARLY_OWN == { <<9, 10>> }
EARLY == FRONT
LATE == { <<9, 10>>, <<10, 11>>, <<11, 12>> }

GD_THRESHOLD == 4

LABELS == { "GlobalDistortion", "FrontEndMove", "BlockReorderExtreme",
            "DualClusterOutlier", "AnchorPreservingDisorder", "Other" }

NONE == "None"      \* a name that has not been assigned yet

(***************************************************************************)
(* Event identifiers and input permutations.                               *)
(***************************************************************************)
MaxEvent == CHOOSE m \in { c[2] : c \in CoverSet } :
                \A c \in CoverSet : c[1] <= m /\ c[2] <= m
Events == 1 .. MaxEvent

Canon == [ k \in 1 .. MaxEvent |-> k ]
Reverse(q) == [ k \in 1 .. Len(q) |-> q[Len(q) + 1 - k] ]
Rotate(q, r) == [ k \in 1 .. Len(q) |-> q[((k - 1 + r) % Len(q)) + 1] ]

(***************************************************************************)
(* Strings are sequences of one-character strings.  parse_perm.            *)
(***************************************************************************)
DIGITS == << "0", "1", "2", "3", "4", "5", "6", "7", "8", "9" >>
WHITESPACE == { " " }

IsDigitChar(c) == \E k \in DOMAIN DIGITS : DIGITS[k] = c
DigitVal(c) == (CHOOSE k \in DOMAIN DIGITS : DIGITS[k] = c) - 1

\* str.isdigit(): not empty and nothing but digits
IsDigit(t) == t # << >> /\ \A k \in DOMAIN t : IsDigitChar(t[k])

\* int(t) of a digit string
RECURSIVE ToInt(_)
ToInt(t) ==
    IF t = << >> THEN 0
    ELSE 10 * ToInt(SubSeq(t, 1, Len(t) - 1)) + DigitVal(t[Len(t)])

\* str.split() without argument: the maximal runs of non-whitespace characters
RECURSIVE SplitRuns(_, _, _, _)
SplitRuns(str, k, cur, acc) ==
    IF k > Len(str) THEN (IF cur = << >> THEN acc ELSE Append(acc, cur))
    ELSE IF str[k] \in WHITESPACE
         THEN SplitRuns(str, k + 1, << >>, IF cur = << >> THEN acc ELSE Append(acc, cur))
    ELSE SplitRuns(str, k + 1, Append(cur, str[k]), acc)

SplitWhitespace(str) == SplitRuns(str, 1, << >>, << >>)

\* tokens = str(s).strip().split(); [int(t) for t in tokens if t.strip().isdigit()]
parse_perm(str) ==
    LET digit_tokens == SelectSeq(SplitWhitespace(str), IsDigit)
    IN  [ k \in 1 .. Len(digit_tokens) |-> ToInt(digit_tokens[k]) ]

\* The text of a permutation column: integer tokens in decimal, a negative
\* token standing for a token that is no number, joined by a separator.
RECURSIVE FormatInt(_)
FormatInt(n) ==
    IF n < 10 THEN << DIGITS[n + 1] >>
    ELSE FormatInt(n \div 10) \o << DIGITS[(n % 10) + 1] >>

FormatToken(tok) == IF tok < 0 THEN << "x" >> ELSE FormatInt(tok)

RECURSIVE JoinTokens(_, _)
JoinTokens(toks, sep) ==
    IF toks = << >> THEN << >>
    ELSE IF Len(toks) = 1 THEN FormatToken(toks[1])
    ELSE FormatToken(toks[1]) \o << sep >> \o JoinTokens(Tail(toks), sep)

\* Token lists handed to parse_perm as text: event numbers of one and two
\* digits and a token that is no number (-1).
MaxTokens == 3
TokenValues == { -1, 1, 2, 3, 4, 12 }
TokenLists == UNION { [1 .. n -> TokenValues] : n \in 0 .. MaxTokens }
SEPARATORS == { " ", ";" }

\* the integer tokens of a token list, in order
IntTokens(toks) == SelectSeq(toks, LAMBDA tok : tok >= 0)

\* Permutations of at most MaxPermLen distinct events (some events absent).
PermInputs ==
    { p \in UNION { [1 .. n -> Events] : n \in 0 .. MaxPermLen } :
        \A a, b \in DOMAIN p : a # b => p[a] # p[b] }

\* Rows of the input table: the canonical order, its reversal, three of its
\* rotations and the short permutation 3 1 2 4.
RowPerms == { Canon, Reverse(Canon), Rotate(Canon, 3), Rotate(Canon, 8),
              Rotate(Canon, 9), <<3, 1, 2, 4>> }

\* the perm column of those rows, whitespace-separated
RowStrings == { JoinTokens(p, " ") : p \in RowPerms }

Tables == UNION { [1 .. n -> RowStrings] : n \in 1 .. MaxRows }

\* Outcomes of random.shuffle(order): the cyclic shifts of COVERS and of its
\* reversal.  Every relative order of every three covers occurs among them.
Orders == { Rotate(COVERS, r) : r \in 0 .. Len(COVERS) - 1 }
            \cup { Rotate(Reverse(COVERS), r) : r \in 0 .. Len(COVERS) - 1 }

(***************************************************************************)
(* compute_violated_covers_from_perm                                       *)
(***************************************************************************)
InPos(p, v) == \E k \in DOMAIN p : p[k] = v
\* pos = {v: i for i, v in enumerate(perm)}: the last index holding v
Pos(p, v) == CHOOSE k \in DOMAIN p : p[k] = v /\ \A j \in DOMAIN p : p[j] = v => j <= k

\* variant: an absent first endpoint counts as placed after everything
compute_violated_absent_first(p) ==
    { COVERS[k] : k \in { j \in DOMAIN COVERS :
        /\ InPos(p, COVERS[j][2])
        /\ (InPos(p, COVERS[j][1]) => Pos(p, COVERS[j][1]) > Pos(p, COVERS[j][2])) } }

compute_violated_covers_from_perm(p) ==
    { COVERS[k] : k \in { j \in DOMAIN COVERS :
        /\ InPos(p, COVERS[j][1])
        /\ InPos(p, COVERS[j][2])
        /\ Pos(p, COVERS[j][1]) > Pos(p, COVERS[j][2]) } }

(***************************************************************************)
(* classify_first_violated and classify_any_cover                          *)
(***************************************************************************)
AnyIn(vs, S) == \E c \in S : c \in vs

\* for cov in cover_check_order: if cov in violated_set and cov in S: return
\* The index of the cover that triggers the return, 0 when the loop runs out.
FirstHit(vs, ord, S) ==
    IF \E k \in DOMAIN ord : ord[k] \in vs /\ ord[k] \in S
    THEN CHOOSE k \in DOMAIN ord :
            /\ ord[k] \in vs /\ ord[k] \in S
            /\ \A j \in 1 .. k - 1 : ~(ord[j] \in vs /\ ord[j] \in S)
    ELSE 0

\* variant: the first violated cover met in the check-order selects the rule
classify_first_match_wins(violated_set, cover_check_order) ==
    LET k == FirstHit(violated_set, cover_check_order, CoverSet)
    IN  IF Cardinality(violated_set) >= GD_THRESHOLD THEN "GlobalDistortion"
        ELSE IF k = 0 THEN "Other"
        ELSE IF cover_check_order[k] \in FRONT THEN "FrontEndMove"
        ELSE IF cover_check_order[k] \in BRE_SET THEN "BlockReorderExtreme"
        ELSE IF AnyIn(violated_set, FRONT) THEN "DualClusterOutlier"
        ELSE "AnchorPreservingDisorder"

\* variant: the block/chain rule is tried before the front rule
classify_first_block_before_front(violated_set, cover_check_order) ==
    IF Cardinality(violated_set) >= GD_THRESHOLD THEN "GlobalDistortion"
    ELSE IF FirstHit(violated_set, cover_check_order, BRE_SET) # 0
         THEN "BlockReorderExtreme"
    ELSE IF FirstHit(violated_set, cover_check_order, FRONT) # 0 THEN "FrontEndMove"
    ELSE IF /\ AnyIn(violated_set, EARLY)
            /\ AnyIn(violated_set, LATE)
            /\ FirstHit(violated_set, cover_check_order, EARLY \cup LATE) # 0
         THEN "DualClusterOutlier"
    ELSE IF violated_set # {} /\ ~AnyIn(violated_set, FRONT)
         THEN "AnchorPreservingDisorder"
    ELSE "Other"

classify_first_violated(violated_set, cover_check_order) ==
    IF Cardinality(violated_set) >= GD_THRESHOLD THEN "GlobalDistortion"
    ELSE IF FirstHit(violated_set, cover_check_order, FRONT) # 0 THEN "FrontEndMove"
    ELSE IF FirstHit(violated_set, cover_check_order, BRE_SET) # 0
         THEN "BlockReorderExtreme"
    ELSE IF /\ AnyIn(violated_set, EARLY)
            /\ AnyIn(violated_set, LATE)
            /\ FirstHit(violated_set, cover_check_order, EARLY \cup LATE) # 0
         THEN "DualClusterOutlier"
    ELSE IF violated_set # {} /\ ~AnyIn(violated_set, FRONT)
         THEN "AnchorPreservingDisorder"
    ELSE "Other"

\* variant: the block/chain rule is tried before the front rule
classify_any_block_before_front(violated_set) ==
    IF Cardinality(violated_set) >= GD_THRESHOLD THEN "GlobalDistortion"
    ELSE IF AnyIn(violated_set, BRE_SET) THEN "BlockReorderExtreme"
    ELSE IF AnyIn(violated_set, FRONT) THEN "FrontEndMove"
    ELSE IF AnyIn(violated_set, EARLY) /\ AnyIn(violated_set, LATE)
         THEN "DualClusterOutlier"
    ELSE IF violated_set # {} /\ ~AnyIn(violated_set, FRONT)
         THEN "AnchorPreservingDisorder"
    ELSE "Other"

\* variant: the threshold test is strict (more than 4)
classify_any_strict_threshold(violated_set) ==
    IF Cardinality(violated_set) > GD_THRESHOLD THEN "GlobalDistortion"
    ELSE IF AnyIn(violated_set, FRONT) THEN "FrontEndMove"
    ELSE IF AnyIn(violated_set, BRE_SET) THEN "BlockReorderExtreme"
    ELSE IF AnyIn(violated_set, EARLY) /\ AnyIn(violated_set, LATE)
         THEN "DualClusterOutlier"
    ELSE IF violated_set # {} /\ ~AnyIn(violated_set, FRONT)
         THEN "AnchorPreservingDisorder"
    ELSE "Other"

\* variant: the final return is missing, the function falls off its end
classify_any_no_final_return(violated_set) ==
    IF Cardinality(violated_set) >= GD_THRESHOLD THEN "GlobalDistortion"
    ELSE IF AnyIn(violated_set, FRONT) THEN "FrontEndMove"
    ELSE IF AnyIn(violated_set, BRE_SET) THEN "BlockReorderExtreme"
    ELSE IF AnyIn(violated_set, EARLY) /\ AnyIn(violated_set, LATE)
         THEN "DualClusterOutlier"
    ELSE IF violated_set # {} /\ ~AnyIn(violated_set, FRONT)
         THEN "AnchorPreservingDisorder"
    ELSE NONE

\* variant: rule 5 does not test that the set is non-empty
classify_any_no_empty_test(violated_set) ==
    IF Cardinality(violated_set) >= GD_THRESHOLD THEN "GlobalDistortion"
    ELSE IF AnyIn(violated_set, FRONT) THEN "FrontEndMove"
    ELSE IF AnyIn(violated_set, BRE_SET) THEN "BlockReorderExtreme"
    ELSE IF AnyIn(violated_set, EARLY) /\ AnyIn(violated_set, LATE)
         THEN "DualClusterOutlier"
    ELSE IF ~AnyIn(violated_set, FRONT) THEN "AnchorPreservingDisorder"
    ELSE "Other"

classify_any_cover(violated_set) ==
    IF Cardinality(violated_set) >= GD_THRESHOLD THEN "GlobalDistortion"
    ELSE IF AnyIn(violated_set, FRONT) THEN "FrontEndMove"
    ELSE IF AnyIn(violated_set, BRE_SET) THEN "BlockReorderExtreme"
    ELSE IF AnyIn(violated_set, EARLY) /\ AnyIn(violated_set, LATE)
         THEN "DualClusterOutlier"
    ELSE IF violated_set # {} /\ ~AnyIn(violated_set, FRONT)
         THEN "AnchorPreservingDisorder"
    ELSE "Other"

(***************************************************************************)
(* collections.Counter, as the sampling loop uses it.                      *)
(***************************************************************************)
\* modal_counts[lab] += 1 : a new key is inserted after the existing ones
CounterAdd(cnt, l) ==
    IF \E k \in DOMAIN cnt : cnt[k][1] = l
    THEN [ k \in DOMAIN cnt |-> IF cnt[k][1] = l THEN << l, cnt[k][2] + 1 >> ELSE cnt[k] ]
    ELSE Append(cnt, << l, 1 >>)

\* variant: the last maximal item wins
MostCommonLast(cnt) ==
    IF cnt = << >> THEN "IndexError"
    ELSE cnt[CHOOSE k \in DOMAIN cnt :
                /\ \A j \in DOMAIN cnt : cnt[j][2] <= cnt[k][2]
                /\ \A j \in k + 1 .. Len(cnt) : cnt[j][2] < cnt[k][2]][1]

\* modal_counts.most_common(1)[0][0] : max() over the items by count, which keeps
\* the first maximal item in insertion order; indexing an empty list raises.
MostCommon(cnt) ==
    IF cnt = << >> THEN "IndexError"
    ELSE cnt[CHOOSE k \in DOMAIN cnt :
                /\ \A j \in DOMAIN cnt : cnt[j][2] <= cnt[k][2]
                /\ \A j \in 1 .. k - 1 : cnt[j][2] < cnt[k][2]][1]

\* variant: the comparison with the baseline label is negated
TallySameNegated(same, l, base) == IF l # base THEN same + 1 ELSE same

\* lines 135-136: if lab == baseline_label: same_count += 1
TallySame(same, l, base) == IF l = base THEN same + 1 ELSE same

(***************************************************************************)
(* Fractions: same_count / N_RANDOM_ORDERS as a rational in lowest terms.  *)
(***************************************************************************)
RECURSIVE GCD(_, _)
GCD(a, b) == IF b = 0 THEN a ELSE GCD(b, a % b)

Frac(n, d) == << n \div GCD(n, d), d \div GCD(n, d) >>

One == << 1, 1 >>          \* the float 1.0
UNSTABLE_BELOW == << 2, 5 >>   \* the float 0.40

\* x < y for fractions with positive denominators
FracLess(x, y) == x[1] * y[2] < y[1] * x[2]
NoFraction == << 0, 0 >>   \* stability has not been assigned yet

(***************************************************************************)
(* sorted(violated), the order in which violated_covers is written.        *)
(***************************************************************************)
LexLeq(x, y) == x[1] < y[1] \/ (x[1] = y[1] /\ x[2] <= y[2])

RECURSIVE SortedCovers(_)
SortedCovers(S) ==
    IF S = {} THEN << >>
    ELSE LET m == CHOOSE x \in S : \A y \in S : LexLeq(x, y)
         IN  << m >> \o SortedCovers(S \ {m})

(***************************************************************************)
(* The script motif_stability_test.py.                                     *)
(***************************************************************************)
ScriptStart ==
    /\ pc = "row"
    /\ i = 0
    /\ perm = << >>
    /\ violated = {}
    /\ baseline_label = NONE
    /\ any_label = NONE
    /\ same_count = 0
    /\ modal_counts = << >>
    /\ s = 0
    /\ order = << >>
    /\ lab = NONE
    /\ stability = NoFraction
    /\ modal_label = NONE
    /\ perms = << >>
    /\ draws = 0
    /\ labs = << >>
    /\ summary_rows = {}

\* nothing of the consensus builder has run, no parse_perm or jaccard call made
AggStart ==
    /\ parse_call = [ tokens |-> << >>, sep |-> " ", text |-> << >> ]
    /\ jcall = [ a |-> {}, b |-> {}, ab |-> NoFraction, ba |-> NoFraction ]
    /\ n_nodes = 0
    /\ cluster_list = << >>
    /\ pairs = << >>
    /\ adj = << >>
    /\ components = << >>
    /\ consensus_groups = << >>
    /\ consensus_csv = << >>
    /\ kw_files = [ present |-> FALSE, bad_row |-> FALSE, members |-> << >> ]
    /\ written = {}

\* ... and no command line of the consensus builder parsed
AggIdle ==
    /\ AggStart
    /\ threshold = NoFraction
    /\ fraction = NoFraction
    /\ write_debug = FALSE

\* a data frame that load_csv did not return (None), and one it did
NoFrame == [ exists |-> FALSE, rows |-> << >> ]
Frame(table) == [ exists |-> TRUE, rows |-> table ]

\* nothing of the agreement reporter has run, no compute_event_position_stats
\* call made
RepIdle ==
    /\ epcall = [ consensus_perms |-> << >>, perm_index_to_string |-> << >>,
                  pos_stats |-> << >> ]
    /\ df_can = NoFrame
    /\ df_a = NoFrame
    /\ df_b = NoFrame
    /\ df = [ columns |-> {}, rows |-> << >> ]
    /\ map_a = << >>
    /\ map_b = << >>
    /\ results = << >>
    /\ preserve_pa = NoFrame
    /\ preserve_pb = NoFrame

Init ==
    /\ AggIdle
    /\ RepIdle
    /\ rows \in Tables
    /\ K \in 1 .. MaxK
    /\ run = 1
    /\ prev_perms = << >>
    /\ ScriptStart

\* lines 117-121: parse the row, detect the violated covers, classify
ReadRow ==
    /\ pc = "row"
    /\ i < Len(rows)
    /\ perm' = parse_perm(rows[i + 1])
    /\ violated' = compute_violated_covers_from_perm(perm')
    /\ baseline_label' = classify_first_violated(violated', COVERS)
    /\ any_label' = classify_any_cover(violated')
    /\ pc' = "branch"
    /\ UNCHANGED aggvars
    /\ UNCHANGED repvars
    /\ UNCHANGED iovars
    /\ UNCHANGED summary_rows
    /\ UNCHANGED << rows, K, i, same_count, modal_counts, s, order, lab, stability,
                    modal_label, perms, draws, run, prev_perms, labs >>

\* variant: the test for an empty violated set is missing, the row is sampled
EmptyCaseSampled ==
    /\ pc = "branch"
    /\ violated = {}
    /\ same_count' = 0
    /\ modal_counts' = << >>
    /\ s' = 0
    /\ labs' = << >>
    /\ pc' = "loop"
    /\ UNCHANGED aggvars
    /\ UNCHANGED repvars
    /\ UNCHANGED iovars
    /\ UNCHANGED summary_rows
    /\ UNCHANGED << rows, K, i, perm, violated, baseline_label, any_label, order, lab,
                    stability, modal_label, perms, draws, run, prev_perms >>

\* lines 124-126: no violated cover
EmptyCase ==
    /\ pc = "branch"
    /\ violated = {}
    /\ stability' = One
    /\ modal_label' = baseline_label
    /\ pc' = "append"
    /\ UNCHANGED aggvars
    /\ UNCHANGED repvars
    /\ UNCHANGED iovars
    /\ UNCHANGED summary_rows
    /\ UNCHANGED << rows, K, i, perm, violated, baseline_label, any_label, same_count,
                    modal_counts, s, order, lab, perms, draws, run, prev_perms, labs >>

\* variant: same_count is not set back to 0, the tally carries over from the
\* row sampled before
BeginSamplingNoReset ==
    /\ pc = "branch"
    /\ violated # {}
    /\ modal_counts' = << >>
    /\ s' = 0
    /\ labs' = << >>
    /\ pc' = "loop"
    /\ UNCHANGED aggvars
    /\ UNCHANGED repvars
    /\ UNCHANGED iovars
    /\ UNCHANGED summary_rows
    /\ UNCHANGED << rows, K, i, perm, violated, baseline_label, any_label, same_count,
                    order, lab, stability, modal_label, perms, draws, run, prev_perms >>

\* lines 127-129: start of the sampling loop
BeginSampling ==
    /\ pc = "branch"
    /\ violated # {}
    /\ same_count' = 0
    /\ modal_counts' = << >>
    /\ s' = 0
    /\ labs' = << >>
    /\ pc' = "loop"
    /\ UNCHANGED aggvars
    /\ UNCHANGED repvars
    /\ UNCHANGED iovars
    /\ UNCHANGED summary_rows
    /\ UNCHANGED << rows, K, i, perm, violated, baseline_label, any_label, order, lab,
                    stability, modal_label, perms, draws, run, prev_perms >>

\* lines 130-136: one iteration, with o the outcome of random.shuffle(order)
SampleOrder ==
    /\ pc = "loop"
    /\ s < K
    /\ \E o \in Orders :
        /\ order' = o
        /\ lab' = classify_first_violated(violated, o)
    /\ modal_counts' = CounterAdd(modal_counts, lab')
    /\ same_count' = TallySame(same_count, lab', baseline_label)
    /\ s' = s + 1
    /\ draws' = draws + 1
    /\ labs' = Append(labs, lab')
    /\ UNCHANGED aggvars
    /\ UNCHANGED repvars
    /\ UNCHANGED iovars
    /\ UNCHANGED summary_rows
    /\ UNCHANGED << pc, rows, K, i, perm, violated, baseline_label, any_label,
                    stability, modal_label, perms, run, prev_perms >>

\* lines 137-138: after the last iteration
FinishSampling ==
    /\ pc = "loop"
    /\ s = K
    /\ stability' = Frac(same_count, K)
    /\ modal_label' = MostCommon(modal_counts)
    /\ pc' = "append"
    /\ UNCHANGED aggvars
    /\ UNCHANGED repvars
    /\ UNCHANGED iovars
    /\ UNCHANGED summary_rows
    /\ UNCHANGED << rows, K, i, perm, violated, baseline_label, any_label, same_count,
                    modal_counts, s, order, lab, perms, draws, run, prev_perms, labs >>

\* lines 140-149: the stability record of the row
AppendRecord ==
    /\ pc = "append"
    /\ perms' = Append(perms,
            [ index |-> i,
              perm_str |-> rows[i + 1],
              violated_covers |-> SortedCovers(violated),
              baseline_first_label |-> baseline_label,
              any_cover_label |-> any_label,
              stability_fraction_first |-> stability,
              modal_label_first |-> modal_label ])
    /\ i' = i + 1
    /\ pc' = "row"
    /\ UNCHANGED aggvars
    /\ UNCHANGED repvars
    /\ UNCHANGED iovars
    /\ UNCHANGED summary_rows
    /\ UNCHANGED << rows, K, perm, violated, baseline_label, any_label, same_count,
                    modal_counts, s, order, lab, stability, modal_label, draws, run,
                    prev_perms, labs >>

\* lines 154-164: one summary row per baseline_first_label of the table
summary_by_label(table) ==
    { LET group == { k \in DOMAIN table : table[k].baseline_first_label = label }
          unstable == Cardinality({ k \in group :
                          FracLess(table[k].stability_fraction_first, UNSTABLE_BELOW) })
      IN  [ baseline_first_label |-> label,
            total_rows |-> Cardinality(group),
            unstable_count |-> unstable,
            fraction_unstable |-> Frac(unstable, Cardinality(group)) ] :
        label \in { table[k].baseline_first_label : k \in DOMAIN table } }

\* lines 151-165: the table and its summary are written once every row is
\* processed
WriteOutput ==
    /\ pc = "row"
    /\ i = Len(rows)
    /\ summary_rows' = summary_by_label(perms)
    /\ pc' = "done"
    /\ UNCHANGED aggvars
    /\ UNCHANGED repvars
    /\ UNCHANGED iovars
    /\ UNCHANGED << rows, K, i, perm, violated, baseline_label, any_label, same_count,
                    modal_counts, s, order, lab, stability, modal_label, perms, draws,
                    run, prev_perms, labs >>

Next ==
    \/ ReadRow
    \/ EmptyCase
    \/ BeginSampling
    \/ SampleOrder
    \/ FinishSampling
    \/ AppendRecord
    \/ WriteOutput

Spec == Init /\ [][Next]_vars

(***************************************************************************)
(* A second execution of the script over the same table with the same K:   *)
(* a fresh process, random.seed(0) again.                                  *)
(***************************************************************************)
Rerun ==
    /\ pc = "done"
    /\ run = 1
    /\ run' = 2
    /\ prev_perms' = perms
    /\ pc' = "row"
    /\ i' = 0
    /\ perm' = << >>
    /\ violated' = {}
    /\ baseline_label' = NONE
    /\ any_label' = NONE
    /\ same_count' = 0
    /\ modal_counts' = << >>
    /\ s' = 0
    /\ order' = << >>
    /\ lab' = NONE
    /\ stability' = NoFraction
    /\ modal_label' = NONE
    /\ perms' = << >>
    /\ draws' = 0
    /\ labs' = << >>
    /\ summary_rows' = {}
    /\ UNCHANGED aggvars
    /\ UNCHANGED repvars
    /\ UNCHANGED iovars
    /\ UNCHANGED << rows, K >>

NextTwoRuns == Next \/ Rerun

SpecTwoRuns == Init /\ [][NextTwoRuns]_vars

(***************************************************************************)
(* Calls of compute_violated_covers_from_perm on bounded permutations.     *)
(***************************************************************************)
ScriptIdle ==
    /\ summary_rows = {}
    /\ rows = << >>
    /\ K = 1
    /\ run = 1
    /\ prev_perms = << >>
    /\ i = 0
    /\ perm = << >>
    /\ violated = {}
    /\ baseline_label = NONE
    /\ any_label = NONE
    /\ same_count = 0
    /\ modal_counts = << >>
    /\ s = 0
    /\ order = << >>
    /\ lab = NONE
    /\ stability = NoFraction
    /\ modal_label = NONE
    /\ perms = << >>
    /\ draws = 0
    /\ labs = << >>

Idle == AggIdle /\ RepIdle /\ ScriptIdle

InitDetect == Idle /\ pc = "input"

CallDetect ==
    /\ pc = "input"
    /\ \E p \in PermInputs :
        /\ perm' = p
        /\ violated' = compute_violated_covers_from_perm(p)
    /\ pc' = "detected"
    /\ UNCHANGED aggvars
    /\ UNCHANGED repvars
    /\ UNCHANGED iovars
    /\ UNCHANGED summary_rows
    /\ UNCHANGED << rows, K, i, baseline_label, any_label, same_count, modal_counts, s,
                    order, lab, stability, modal_label, perms, draws, run, prev_perms,
                    labs >>

NextDetect == CallDetect

SpecDetect == InitDetect /\ [][NextDetect]_vars

(***************************************************************************)
(* Calls of parse_perm on the text of bounded token lists, written with    *)
(* either separator.                                                       *)
(***************************************************************************)
InitParse == Idle /\ pc = "input"

CallParse ==
    /\ pc = "input"
    /\ \E toks \in TokenLists, sep \in SEPARATORS :
        /\ parse_call' = [ tokens |-> toks, sep |-> sep, text |-> JoinTokens(toks, sep) ]
        /\ perm' = parse_perm(parse_call'.text)
    /\ pc' = "parsed"
    /\ UNCHANGED << jcall, threshold, fraction, n_nodes, cluster_list, pairs, adj,
                    components, consensus_groups, consensus_csv >>
    /\ UNCHANGED repvars
    /\ UNCHANGED iovars
    /\ UNCHANGED summary_rows
    /\ UNCHANGED << rows, K, i, violated, baseline_label, any_label, same_count,
                    modal_counts, s, order, lab, stability, modal_label, perms, draws,
                    run, prev_perms, labs >>

NextParse == CallParse

SpecParse == InitParse /\ [][NextParse]_vars

(***************************************************************************)
(* Calls of the two classifiers on every subset of COVERS and on the       *)
(* violated sets of the table rows, under the bounded check-orders.        *)
(***************************************************************************)
InitClassify == Idle /\ pc = "input"

\* a violated set handed to the classifiers directly
InputSet ==
    /\ pc = "input"
    /\ violated' \in SUBSET CoverSet
    /\ pc' = "first"
    /\ UNCHANGED aggvars
    /\ UNCHANGED repvars
    /\ UNCHANGED iovars
    /\ UNCHANGED summary_rows
    /\ UNCHANGED << rows, K, i, perm, baseline_label, any_label, same_count,
                    modal_counts, s, order, lab, stability, modal_label, perms, draws,
                    run, prev_perms, labs >>

\* a violated set detected from a permutation (lines 117-118)
InputPerm ==
    /\ pc = "input"
    /\ \E p \in RowPerms :
        /\ perm' = p
        /\ violated' = compute_violated_covers_from_perm(p)
    /\ pc' = "first"
    /\ UNCHANGED aggvars
    /\ UNCHANGED repvars
    /\ UNCHANGED iovars
    /\ UNCHANGED summary_rows
    /\ UNCHANGED << rows, K, i, baseline_label, any_label, same_count, modal_counts, s,
                    order, lab, stability, modal_label, perms, draws, run, prev_perms,
                    labs >>

\* classify_first_violated(violated, order) for a check-order o
CallFirst ==
    /\ pc \in { "first", "classified" }
    /\ \E o \in Orders :
        /\ order' = o
        /\ lab' = classify_first_violated(violated, o)
    /\ pc' = "any"
    /\ UNCHANGED aggvars
    /\ UNCHANGED repvars
    /\ UNCHANGED iovars
    /\ UNCHANGED summary_rows
    /\ UNCHANGED << rows, K, i, perm, violated, baseline_label, any_label, same_count,
                    modal_counts, s, stability, modal_label, perms, draws, run,
                    prev_perms, labs >>

\* classify_any_cover(violated)
CallAny ==
    /\ pc = "any"
    /\ any_label' = classify_any_cover(violated)
    /\ pc' = "classified"
    /\ UNCHANGED aggvars
    /\ UNCHANGED repvars
    /\ UNCHANGED iovars
    /\ UNCHANGED summary_rows
    /\ UNCHANGED << rows, K, i, perm, violated, baseline_label, same_count,
                    modal_counts, s, order, lab, stability, modal_label, perms, draws,
                    run, prev_perms, labs >>

NextClassify ==
    \/ InputSet
    \/ InputPerm
    \/ CallFirst
    \/ CallAny

SpecClassify == InitClassify /\ [][NextClassify]_vars

(***************************************************************************)
(* The tally of sampled labels (lines 129, 134, 138) on bounded label      *)
(* sequences.                                                              *)
(***************************************************************************)
InitModal == Idle /\ pc = "tally"

\* line 134 for a sampled label l
Tally ==
    /\ pc = "tally"
    /\ s < MaxSamples
    /\ \E l \in LABELS : lab' = l
    /\ modal_counts' = CounterAdd(modal_counts, lab')
    /\ labs' = Append(labs, lab')
    /\ s' = s + 1
    /\ UNCHANGED aggvars
    /\ UNCHANGED repvars
    /\ UNCHANGED iovars
    /\ UNCHANGED summary_rows
    /\ UNCHANGED << pc, rows, K, i, perm, violated, baseline_label, any_label,
                    same_count, order, stability, modal_label, perms, draws, run,
                    prev_perms >>

\* line 138 after at least one sample
PickModal ==
    /\ pc = "tally"
    /\ s >= 1
    /\ modal_label' = MostCommon(modal_counts)
    /\ pc' = "picked"
    /\ UNCHANGED aggvars
    /\ UNCHANGED repvars
    /\ UNCHANGED iovars
    /\ UNCHANGED summary_rows
    /\ UNCHANGED << rows, K, i, perm, violated, baseline_label, any_label, same_count,
                    modal_counts, s, order, lab, stability, perms, draws, run,
                    prev_perms, labs >>

NextModal == Tally \/ PickModal

SpecModal == InitModal /\ [][NextModal]_vars

(***************************************************************************)
(* aggregate_motif_stability.py: jaccard.  Floats are exact fractions;     *)
(* a division by zero yields ZeroDivisionError instead of a fraction.      *)
(***************************************************************************)
Zero == << 0, 1 >>               \* the float 0.0
ZeroDivisionError == << 1, 0 >>  \* what x / 0 raises

Divide(n, d) == IF d = 0 THEN ZeroDivisionError ELSE Frac(n, d)

\* x <= y for fractions with positive denominators
FracLeq(x, y) == x[1] * y[2] <= y[1] * x[2]

\* variant: the intersection is divided by len(a) instead of the union
jaccard_over_first(a, b) ==
    IF a = {} /\ b = {} THEN One
    ELSE LET inter == Cardinality(a \cap b)
             uni == Cardinality(a)
         IN  IF uni > 0 THEN Divide(inter, uni) ELSE Zero

\* variant: neither the both-empty test nor the uni > 0 test
jaccard_unguarded(a, b) ==
    LET inter == Cardinality(a \cap b)
        uni == Cardinality(a \cup b)
    IN  Divide(inter, uni)

\* lines 71-76
jaccard(a, b) ==
    IF a = {} /\ b = {} THEN One
    ELSE LET inter == Cardinality(a \cap b)
             uni == Cardinality(a \cup b)
         IN  IF uni > 0 THEN Divide(inter, uni) ELSE Zero

\* Sets handed to jaccard: every subset of 1 .. MaxSetElem.
MaxSetElem == 4
SetInputs == SUBSET (1 .. MaxSetElem)

InitJaccard == Idle /\ pc = "input"

\* jaccard(a, b) and jaccard(b, a) for one pair of sets
CallJaccard ==
    /\ pc = "input"
    /\ \E a \in SetInputs, b \in SetInputs :
        jcall' = [ a |-> a, b |-> b, ab |-> jaccard(a, b), ba |-> jaccard(b, a) ]
    /\ pc' = "called"
    /\ UNCHANGED << parse_call, threshold, fraction, n_nodes, cluster_list, pairs, adj,
                    components, consensus_groups, consensus_csv >>
    /\ UNCHANGED repvars
    /\ UNCHANGED iovars
    /\ UNCHANGED summary_rows
    /\ UNCHANGED << rows, K, i, perm, violated, baseline_label, any_label, same_count,
                    modal_counts, s, order, lab, stability, modal_label, perms, draws,
                    run, prev_perms, labs >>

NextJaccard == CallJaccard

SpecJaccard == InitJaccard /\ [][NextJaccard]_vars

(***************************************************************************)
(* aggregate_motif_stability.py: build_pairwise_jaccard and                *)
(* build_graph_components.  Vertices are 0 .. n - 1 as in the code; the    *)
(* element of a list at Python index v is at position v + 1.               *)
(***************************************************************************)
Range(q) == { q[k] : k \in DOMAIN q }

\* sorted(q) of a list of integers
RECURSIVE sorted(_)
sorted(q) ==
    IF q = << >> THEN << >>
    ELSE LET m == CHOOSE k \in DOMAIN q :
                      /\ \A l \in DOMAIN q : q[k] <= q[l]
                      /\ \A l \in 1 .. k - 1 : q[l] # q[k]
         IN  << q[m] >> \o sorted(SubSeq(q, 1, m - 1) \o SubSeq(q, m + 1, Len(q)))

\* sorted(S) of a set of integers
RECURSIVE SortedSet(_)
SortedSet(S) ==
    IF S = {} THEN << >>
    ELSE LET m == CHOOSE x \in S : \A y \in S : x <= y
         IN  << m >> \o SortedSet(S \ {m})

\* for i in range(n): for j in range(i+1, n): the pairs <<i, j>> in loop order
RECURSIVE PairLoop(_, _, _, _)
PairLoop(n, vi, vj, acc) ==
    IF vi >= n THEN acc
    ELSE IF vj >= n THEN PairLoop(n, vi + 1, vi + 2, acc)
    ELSE PairLoop(n, vi, vj + 1, Append(acc, << vi, vj >>))

IndexPairs(n) == PairLoop(n, 0, 1, << >>)

\* lines 78-87
build_pairwise_jaccard(cl) ==
    LET ij == IndexPairs(Len(cl))
    IN  [ k \in DOMAIN ij |->
            << ij[k][1], ij[k][2],
               jaccard(cl[ij[k][1] + 1].perm_indices, cl[ij[k][2] + 1].perm_indices) >> ]

\* variant: an edge needs val > threshold
RECURSIVE AddEdgesStrict(_, _, _)
AddEdgesStrict(adjacency, prs, tau) ==
    IF prs = << >> THEN adjacency
    ELSE LET vi == Head(prs)[1] + 1
             vj == Head(prs)[2] + 1
             val == Head(prs)[3]
             with_i == [ adjacency EXCEPT ![vi] = Append(@, vj - 1) ]
             with_ij == [ with_i EXCEPT ![vj] = Append(@, vi - 1) ]
         IN  AddEdgesStrict(IF FracLeq(tau, val) /\ val # tau THEN with_ij ELSE adjacency,
                            Tail(prs), tau)

\* variant: every pair becomes an edge, the threshold is not tested
RECURSIVE AddEdgesNoThreshold(_, _, _)
AddEdgesNoThreshold(adjacency, prs, tau) ==
    IF prs = << >> THEN adjacency
    ELSE LET vi == Head(prs)[1] + 1
             vj == Head(prs)[2] + 1
             with_i == [ adjacency EXCEPT ![vi] = Append(@, vj - 1) ]
             with_ij == [ with_i EXCEPT ![vj] = Append(@, vi - 1) ]
         IN  AddEdgesNoThreshold(with_ij, Tail(prs), tau)

\* lines 92-95: for i, j, val in pairs: if val >= threshold: append both ways
RECURSIVE AddEdges(_, _, _)
AddEdges(adjacency, prs, tau) ==
    IF prs = << >> THEN adjacency
    ELSE LET vi == Head(prs)[1] + 1
             vj == Head(prs)[2] + 1
             val == Head(prs)[3]
             with_i == [ adjacency EXCEPT ![vi] = Append(@, vj - 1) ]
             with_ij == [ with_i EXCEPT ![vj] = Append(@, vi - 1) ]
         IN  AddEdges(IF FracLeq(tau, val) THEN with_ij ELSE adjacency, Tail(prs), tau)

\* lines 91-95: the adjacency lists
BuildAdj(n, prs, tau) == AddEdges([ v \in 1 .. n |-> << >> ], prs, tau)

\* lines 108-111: for w in adj[v]: push the neighbours not yet visited
RECURSIVE PushNeighbours(_, _, _)
PushNeighbours(ws, stack, visited) ==
    IF ws = << >> THEN [ stack |-> stack, visited |-> visited ]
    ELSE IF Head(ws) \notin visited
         THEN PushNeighbours(Tail(ws), Append(stack, Head(ws)), visited \cup { Head(ws) })
    ELSE PushNeighbours(Tail(ws), stack, visited)

\* lines 105-111: while stack: v = stack.pop(); comp.append(v); ...
RECURSIVE Visit(_, _, _, _)
Visit(adjacency, stack, comp, visited) ==
    IF stack = << >> THEN [ comp |-> comp, visited |-> visited ]
    ELSE LET v == stack[Len(stack)]
             pushed == PushNeighbours(adjacency[v + 1], SubSeq(stack, 1, Len(stack) - 1),
                                      visited)
         IN  Visit(adjacency, pushed.stack, Append(comp, v), pushed.visited)

\* variant: a visited vertex is not skipped, it starts a component of its own
RECURSIVE ComponentsNoSkip(_, _, _, _, _)
ComponentsNoSkip(n, adjacency, v, visited, acc) ==
    IF v >= n THEN acc
    ELSE LET found == Visit(adjacency, << v >>, << >>, visited \cup { v })
         IN  ComponentsNoSkip(n, adjacency, v + 1, found.visited,
                              Append(acc, sorted(found.comp)))

\* variant: components.append(comp) without sorted
RECURSIVE ComponentsUnsorted(_, _, _, _, _)
ComponentsUnsorted(n, adjacency, v, visited, acc) ==
    IF v >= n THEN acc
    ELSE IF v \in visited THEN ComponentsUnsorted(n, adjacency, v + 1, visited, acc)
    ELSE LET found == Visit(adjacency, << v >>, << >>, visited \cup { v })
         IN  ComponentsUnsorted(n, adjacency, v + 1, found.visited,
                                Append(acc, found.comp))

\* lines 97-112: for i in range(n_nodes): skip when visited, else one DFS
RECURSIVE Components(_, _, _, _, _)
Components(n, adjacency, v, visited, acc) ==
    IF v >= n THEN acc
    ELSE IF v \in visited THEN Components(n, adjacency, v + 1, visited, acc)
    ELSE LET found == Visit(adjacency, << v >>, << >>, visited \cup { v })
         IN  Components(n, adjacency, v + 1, found.visited,
                        Append(acc, sorted(found.comp)))

\* lines 89-113
build_graph_components(n, prs, tau) ==
    Components(n, BuildAdj(n, prs, tau), 0, {}, << >>)

(***************************************************************************)
(* Calls of build_graph_components on every pair list over bounded vertex  *)
(* counts: one value per pair i < j.                                       *)
(***************************************************************************)
MaxNodes == 4
PairValues == { Zero, << 1, 2 >>, One }
Thresholds == { << 1, 2 >>, << 3, 4 >> }

\* the pairs i < j of each vertex count
PairSlots == [ n \in 0 .. MaxNodes |-> IndexPairs(n) ]

InitComponents == Idle /\ pc = "input"

CallComponents ==
    /\ pc = "input"
    /\ \E n \in 0 .. MaxNodes, tau \in Thresholds :
        \E vals \in [ DOMAIN PairSlots[n] -> PairValues ] :
            /\ n_nodes' = n
            /\ threshold' = tau
            /\ pairs' = [ k \in DOMAIN PairSlots[n] |->
                            << PairSlots[n][k][1], PairSlots[n][k][2], vals[k] >> ]
            /\ adj' = BuildAdj(n, pairs', tau)
            /\ components' = build_graph_components(n, pairs', tau)
    /\ pc' = "called"
    /\ UNCHANGED << parse_call, jcall, fraction, cluster_list, consensus_groups,
                    consensus_csv >>
    /\ UNCHANGED repvars
    /\ UNCHANGED iovars
    /\ UNCHANGED summary_rows
    /\ UNCHANGED << rows, K, i, perm, violated, baseline_label, any_label, same_count,
                    modal_counts, s, order, lab, stability, modal_label, perms, draws,
                    run, prev_perms, labs >>

NextComponents == CallComponents

SpecComponents == InitComponents /\ [][NextComponents]_vars

(***************************************************************************)
(* aggregate_motif_stability.py: load_cluster_members,                     *)
(* compute_consensus_for_component, write_csv_consensus and main.          *)
(***************************************************************************)
\* The (run_id, cluster_id) keys the membership files can hold, in the order
\* of sorted(grouped.items()), and the permutation indices 1 .. MaxIdx.
MaxIdx == 2
ClusterKeys == << << 1, 0 >>, << 1, 1 >>, << 2, 0 >>, << 2, 1 >> >>

\* Contents of the membership files: for each key the perm_index values of
\* its rows (no row for a key: the empty set).
Memberships == [ DOMAIN ClusterKeys -> SUBSET (1 .. MaxIdx) ]

\* The two-run scenario: run 1 cluster 0 = {1,2,3,4}, run 2 cluster 0 = {1,2,3,5}.
ScenarioMembers ==
    [ k \in DOMAIN ClusterKeys |->
        IF ClusterKeys[k] = << 1, 0 >> THEN { 1, 2, 3, 4 }
        ELSE IF ClusterKeys[k] = << 2, 0 >> THEN { 1, 2, 3, 5 }
        ELSE {} ]

\* What the kw folder holds: no cluster_members_run_*.csv file at all, or
\* files with the membership rows `members`, one of which may have a field
\* that int() rejects.
KwFolders ==
    { [ present |-> FALSE, bad_row |-> FALSE, members |-> << >> ] }
    \cup { [ present |-> TRUE, bad_row |-> b, members |-> f ] :
               b \in BOOLEAN, f \in Memberships \cup { ScenarioMembers } }

\* lines 28-29 and 47-48: SystemExit when no file matches, ValueError when
\* int(row[0]) or int(row[1]) fails
load_raises(found) == ~found.present \/ found.bad_row

\* lines 52-69: one record per key that has a row, sorted by key
load_cluster_members(files) ==
    LET grouped == [ k \in DOMAIN ClusterKeys |->
                       [ run_id |-> ClusterKeys[k][1],
                         cluster_id |-> ClusterKeys[k][2],
                         perm_indices |-> files[k] ] ]
    IN  SelectSeq(grouped, LAMBDA c : c.perm_indices # {})

\* sum(jvals) and sum(jvals) / len(jvals) on fractions
RECURSIVE FracSum(_)
FracSum(q) ==
    IF q = << >> THEN Zero
    ELSE LET rest == FracSum(Tail(q))
         IN  Frac(Head(q)[1] * rest[2] + rest[1] * Head(q)[2], Head(q)[2] * rest[2])

\* variant: math.floor instead of math.ceil
ConsensusThresholdFloor(phi, m) == (phi[1] * m) \div phi[2]

\* line 125: math.ceil(consensus_fraction * m)
ConsensusThreshold(phi, m) == (phi[1] * m + phi[2] - 1) \div phi[2]

\* variant: one entry per member cluster, run ids not de-duplicated
RunsRepresentedAll(member_clusters) ==
    sorted([ k \in DOMAIN member_clusters |-> member_clusters[k].run_id ])

\* line 128: sorted({c["run_id"] for c in member_clusters})
RunsRepresented(member_clusters) ==
    SortedSet({ member_clusters[k].run_id : k \in DOMAIN member_clusters })

\* lines 120-123: perm_counts
PermCounts(member_clusters) ==
    [ p \in UNION { member_clusters[k].perm_indices : k \in DOMAIN member_clusters } |->
        Cardinality({ k \in DOMAIN member_clusters : p \in member_clusters[k].perm_indices }) ]

\* lines 131-135: mean pairwise jaccard among the member clusters
MeanJaccard(member_clusters) ==
    LET ij == IndexPairs(Len(member_clusters))
        jvals == [ k \in DOMAIN ij |->
                     jaccard(member_clusters[ij[k][1] + 1].perm_indices,
                             member_clusters[ij[k][2] + 1].perm_indices) ]
    IN  IF jvals = << >> THEN One
        ELSE Frac(FracSum(jvals)[1], FracSum(jvals)[2] * Len(jvals))

\* lines 115-144
compute_consensus_for_component(component_indices, cl, phi) ==
    LET member_clusters == [ k \in DOMAIN component_indices |->
                               cl[component_indices[k] + 1] ]
        m == Len(member_clusters)
        perm_counts == PermCounts(member_clusters)
        needed == ConsensusThreshold(phi, m)
        runs == RunsRepresented(member_clusters)
    IN  [ member_clusters |-> [ k \in DOMAIN member_clusters |->
                                  << member_clusters[k].run_id,
                                     member_clusters[k].cluster_id >> ],
          n_member_clusters |-> m,
          runs_represented |-> runs,
          fragmentation |-> Len(runs),
          mean_pairwise_jaccard |-> MeanJaccard(member_clusters),
          consensus_perms |->
              SortedSet({ p \in DOMAIN perm_counts : perm_counts[p] >= needed }),
          perm_counts |-> perm_counts ]

\* lines 179-194: the rows of consensus_motifs.csv, the two list columns kept
\* as lists
write_csv_consensus(groups) ==
    [ k \in DOMAIN groups |->
        [ consensus_id |-> k - 1,
          n_member_clusters |-> groups[k].n_member_clusters,
          fragmentation |-> groups[k].fragmentation,
          mean_pairwise_jaccard |-> groups[k].mean_pairwise_jaccard,
          n_consensus_perms |-> Len(groups[k].consensus_perms),
          member_clusters |-> groups[k].member_clusters,
          consensus_perms |-> groups[k].consensus_perms ] ]

\* lines 266-268: the tables main writes after the groups are computed
OUTPUT_TABLES ==
    { "consensus_motifs.csv", "motif_stability_summary.csv",
      "consensus_event_positions.csv" }

\* --consensus-fraction values
Fractions == { << 1, 2 >>, << 3, 4 >> }

\* lines 230-235: the command line is parsed
InitAggregate ==
    /\ ScriptIdle
    /\ RepIdle
    /\ AggStart
    /\ threshold \in Thresholds
    /\ fraction \in Fractions
    /\ write_debug \in BOOLEAN
    /\ pc = "load"

\* variant: a failure of load_cluster_members is swallowed and the run goes on
\* with no cluster
LoadClustersNoAbort ==
    /\ pc = "load"
    /\ \E found \in KwFolders :
        /\ kw_files' = found
        /\ cluster_list' = IF load_raises(found) THEN << >>
                           ELSE load_cluster_members(found.members)
    /\ pc' = "pairs"
    /\ UNCHANGED << write_debug, written >>
    /\ UNCHANGED << parse_call, jcall, threshold, fraction, n_nodes, pairs, adj,
                    components, consensus_groups, consensus_csv >>
    /\ UNCHANGED repvars
    /\ UNCHANGED summary_rows
    /\ UNCHANGED << rows, K, i, perm, violated, baseline_label, any_label, same_count,
                    modal_counts, s, order, lab, stability, modal_label, perms, draws,
                    run, prev_perms, labs >>

\* line 245: load_cluster_members returns the cluster list or the run aborts
LoadClusters ==
    /\ pc = "load"
    /\ \E found \in KwFolders :
        /\ kw_files' = found
        /\ IF load_raises(found)
           THEN cluster_list' = cluster_list /\ pc' = "aborted"
           ELSE cluster_list' = load_cluster_members(found.members) /\ pc' = "pairs"
    /\ UNCHANGED << write_debug, written >>
    /\ UNCHANGED << parse_call, jcall, threshold, fraction, n_nodes, pairs, adj,
                    components, consensus_groups, consensus_csv >>
    /\ UNCHANGED repvars
    /\ UNCHANGED summary_rows
    /\ UNCHANGED << rows, K, i, perm, violated, baseline_label, any_label, same_count,
                    modal_counts, s, order, lab, stability, modal_label, perms, draws,
                    run, prev_perms, labs >>

\* lines 249-252: the pairs, and debug_cluster_pairs.csv under --write-debug
BuildPairs ==
    /\ pc = "pairs"
    /\ pairs' = build_pairwise_jaccard(cluster_list)
    /\ written' = IF write_debug THEN written \cup { "debug_cluster_pairs.csv" }
                  ELSE written
    /\ pc' = "components"
    /\ UNCHANGED << kw_files, write_debug >>
    /\ UNCHANGED << parse_call, jcall, threshold, fraction, n_nodes, cluster_list, adj,
                    components, consensus_groups, consensus_csv >>
    /\ UNCHANGED repvars
    /\ UNCHANGED summary_rows
    /\ UNCHANGED << rows, K, i, perm, violated, baseline_label, any_label, same_count,
                    modal_counts, s, order, lab, stability, modal_label, perms, draws,
                    run, prev_perms, labs >>

\* line 255
BuildComponents ==
    /\ pc = "components"
    /\ n_nodes' = Len(cluster_list)
    /\ adj' = BuildAdj(n_nodes', pairs, threshold)
    /\ components' = build_graph_components(n_nodes', pairs, threshold)
    /\ pc' = "consensus"
    /\ UNCHANGED << parse_call, jcall, threshold, fraction, cluster_list, pairs,
                    consensus_groups, consensus_csv >>
    /\ UNCHANGED repvars
    /\ UNCHANGED iovars
    /\ UNCHANGED summary_rows
    /\ UNCHANGED << rows, K, i, perm, violated, baseline_label, any_label, same_count,
                    modal_counts, s, order, lab, stability, modal_label, perms, draws,
                    run, prev_perms, labs >>

\* lines 258-261: one iteration of for comp in components
ComputeConsensus ==
    /\ pc = "consensus"
    /\ Len(consensus_groups) < Len(components)
    /\ consensus_groups' =
           Append(consensus_groups,
                  compute_consensus_for_component(components[Len(consensus_groups) + 1],
                                                  cluster_list, fraction))
    /\ UNCHANGED << pc, parse_call, jcall, threshold, fraction, n_nodes, cluster_list,
                    pairs, adj, components, consensus_csv >>
    /\ UNCHANGED repvars
    /\ UNCHANGED iovars
    /\ UNCHANGED summary_rows
    /\ UNCHANGED << rows, K, i, perm, violated, baseline_label, any_label, same_count,
                    modal_counts, s, order, lab, stability, modal_label, perms, draws,
                    run, prev_perms, labs >>

\* lines 266-268: the output tables are written
WriteOutputs ==
    /\ pc = "consensus"
    /\ Len(consensus_groups) = Len(components)
    /\ consensus_csv' = write_csv_consensus(consensus_groups)
    /\ written' = written \cup OUTPUT_TABLES
    /\ pc' = "done"
    /\ UNCHANGED << kw_files, write_debug >>
    /\ UNCHANGED << parse_call, jcall, threshold, fraction, n_nodes, cluster_list,
                    pairs, adj, components, consensus_groups >>
    /\ UNCHANGED repvars
    /\ UNCHANGED summary_rows
    /\ UNCHANGED << rows, K, i, perm, violated, baseline_label, any_label, same_count,
                    modal_counts, s, order, lab, stability, modal_label, perms, draws,
                    run, prev_perms, labs >>

NextAggregate ==
    \/ LoadClusters
    \/ BuildPairs
    \/ BuildComponents
    \/ ComputeConsensus
    \/ WriteOutputs

SpecAggregate == InitAggregate /\ [][NextAggregate]_vars

(***************************************************************************)
(* aggregate_motif_stability.py: compute_event_position_stats.  A dict is  *)
(* a function on its keys, the empty dict the empty function.              *)
(***************************************************************************)
\* s.split(";"): the pieces between the separators, empty pieces kept
RECURSIVE SplitAt(_, _, _, _, _)
SplitAt(str, sep, k, cur, acc) ==
    IF k > Len(str) THEN Append(acc, cur)
    ELSE IF str[k] = sep THEN SplitAt(str, sep, k + 1, << >>, Append(acc, cur))
    ELSE SplitAt(str, sep, k + 1, Append(cur, str[k]), acc)

\* line 165: [int(x) for x in s.split(";") if x != ""]
parse_semicolon(str) ==
    LET pieces == SelectSeq(SplitAt(str, ";", 1, << >>, << >>), LAMBDA x : x # << >>)
    IN  [ k \in DOMAIN pieces |-> ToInt(pieces[k]) ]

\* perm.index(node): 0-based index of the first occurrence
IndexOf(q, x) == (CHOOSE k \in DOMAIN q : q[k] = x /\ \A j \in 1 .. k - 1 : q[j] # x) - 1

\* line 174: perm.index(node) / max(1, len(perm)-1)
NormalizedPosition(q, node) ==
    Frac(IndexOf(q, node), IF Len(q) - 1 > 1 THEN Len(q) - 1 ELSE 1)

\* lines 168-176: nodes and the mean position of each over the permutations
\* that contain it
PositionStats(permlists) ==
    [ node \in UNION { Range(permlists[k]) : k \in DOMAIN permlists } |->
        LET holding == SelectSeq(permlists, LAMBDA q : node \in Range(q))
            positions == [ k \in DOMAIN holding |-> NormalizedPosition(holding[k], node) ]
        IN  IF positions = << >> THEN NoFraction
            ELSE Frac(FracSum(positions)[1], FracSum(positions)[2] * Len(positions)) ]

\* variant: an index without permutation string is skipped, the others count
compute_event_position_stats_skip_missing(consensus_perms, perm_index_to_string) ==
    IF consensus_perms = << >> THEN << >>
    ELSE LET known == SelectSeq(consensus_perms,
                                LAMBDA pidx : pidx \in DOMAIN perm_index_to_string)
         IN  PositionStats([ k \in DOMAIN known |->
                               parse_semicolon(perm_index_to_string[known[k]]) ])

\* lines 154-177
compute_event_position_stats(consensus_perms, perm_index_to_string) ==
    IF consensus_perms = << >> THEN << >>
    ELSE IF \E k \in DOMAIN consensus_perms :
                consensus_perms[k] \notin DOMAIN perm_index_to_string
         THEN << >>
    ELSE PositionStats([ k \in DOMAIN consensus_perms |->
                           parse_semicolon(perm_index_to_string[consensus_perms[k]]) ])

\* Permutation strings of the membership files: event sequences written with
\* ';' between the events, and one string with an empty piece.
MaxConsensus == 3
PermSources ==
    { [ events |-> q, text |-> JoinTokens(q, ";") ] :
        q \in { << 1, 2, 3 >>, << 3, 1 >>, << 2 >>, << >>, << 2, 12, 2 >> } }
    \cup { [ events |-> << 1, 2 >>, text |-> << "1", ";", ";", "2" >> ] }
PermStrings == { src.text : src \in PermSources }

\* the sorted consensus lists over 1 .. MaxConsensus and the index-to-string
\* maps on part of these indices
ConsensusLists == { SortedSet(S) : S \in SUBSET (1 .. MaxConsensus) }
StringMaps == UNION { [ D -> PermStrings ] : D \in SUBSET (1 .. MaxConsensus) }

InitPositions == Idle /\ pc = "input"

CallPositions ==
    /\ pc = "input"
    /\ \E cp \in ConsensusLists, strs \in StringMaps :
        epcall' = [ consensus_perms |-> cp,
                    perm_index_to_string |-> strs,
                    pos_stats |-> compute_event_position_stats(cp, strs) ]
    /\ pc' = "called"
    /\ UNCHANGED aggvars
    /\ UNCHANGED iovars
    /\ UNCHANGED summary_rows
    /\ UNCHANGED << df_can, df_a, df_b, df, map_a, map_b, results, preserve_pa,
                    preserve_pb >>
    /\ UNCHANGED << rows, K, i, perm, violated, baseline_label, any_label, same_count,
                    modal_counts, s, order, lab, stability, modal_label, perms, draws,
                    run, prev_perms, labs >>

NextPositions == CallPositions

SpecPositions == InitPositions /\ [][NextPositions]_vars

(***************************************************************************)
(* compute_segmentation_agreement_map_and_recompute.py, the agreement      *)
(* reporter.  A data frame is its set of column names and its list of      *)
(* rows; a missing cell is NaN.  The scores of sklearn are not computed:   *)
(* a result is 'NA', nan or "float", a number some library call returned.  *)
(***************************************************************************)
NaN == "NaN"
MOTIFS == << "A", "B" >>        \* the canonical labels, in sorted order
CLUSTERS == { "c1", "c2" }      \* the cluster names of an independent labeling
FOREIGN == 100                  \* indices from here on are in no canonical table
MaxCanon == 3

\* canonical [A,A,B,B] at indices 0..3, and a labeling whose majority vote
\* maps it to [A,B,B,B]
ScenarioCanon ==
    << [ index |-> 0, label |-> "A" ], [ index |-> 1, label |-> "A" ],
       [ index |-> 2, label |-> "B" ], [ index |-> 3, label |-> "B" ] >>
ScenarioParse ==
    << [ index |-> 0, cluster |-> "c1" ], [ index |-> 1, cluster |-> "c2" ],
       [ index |-> 2, cluster |-> "c2" ], [ index |-> 3, cluster |-> "c2" ] >>

\* motif_stability_per_permutation.csv: index 0, 1, ... and a label per row
CanonTables ==
    { ScenarioCanon } \cup
    UNION { { [ k \in 1 .. n |-> [ index |-> k - 1, label |-> f[k] ] ] :
                f \in [ 1 .. n -> Range(MOTIFS) \cup { NaN } ] } : n \in 0 .. MaxCanon }

\* load_csv(CANON): None, or the table with or without a stability column
CanonFiles ==
    { NoFrame } \cup
    { [ exists |-> TRUE, rows |-> tab, stability |-> b ] :
        tab \in CanonTables, b \in BOOLEAN }

\* tables of an independent labeling: a cluster for part of the canonical
\* indices, foreign indices only, a repeated row and an index in two
\* clusters, a missing cluster
ParseTables ==
    { ScenarioParse,
      << [ index |-> FOREIGN, cluster |-> "c1" ],
         [ index |-> FOREIGN + 1, cluster |-> "c2" ] >>,
      << [ index |-> 0, cluster |-> "c1" ], [ index |-> 0, cluster |-> "c1" ],
         [ index |-> 1, cluster |-> "c1" ], [ index |-> 1, cluster |-> "c2" ] >>,
      << [ index |-> 0, cluster |-> NaN ], [ index |-> 1, cluster |-> "c1" ] >> }
    \cup
    UNION { { [ k \in 1 .. Cardinality(D) |->
                [ index |-> SortedSet(D)[k], cluster |-> f[SortedSet(D)[k]] ] ] :
                f \in [ D -> CLUSTERS ] } : D \in SUBSET (0 .. MaxCanon - 1) }

\* a parse frame after prepare_parse: keyed when an index column and a
\* cluster-like column were found and renamed
ParseFrame(table, found) == [ exists |-> TRUE, rows |-> table, keyed |-> found ]

ParseFilesA ==
    { NoFrame, ParseFrame(<< >>, FALSE) } \cup
    { ParseFrame(tab, TRUE) : tab \in ParseTables }

ParseFilesB ==
    { NoFrame,
      ParseFrame(ScenarioParse, TRUE),
      ParseFrame(<< [ index |-> FOREIGN, cluster |-> "c1" ] >>, TRUE),
      ParseFrame(<< [ index |-> 0, cluster |-> "c2" ],
                    [ index |-> 1, cluster |-> "c2" ] >>, TRUE) }

\* DataFrame.drop_duplicates(): the first of equal rows is kept
RECURSIVE drop_duplicates(_)
drop_duplicates(q) ==
    IF q = << >> THEN << >>
    ELSE LET init == drop_duplicates(SubSeq(q, 1, Len(q) - 1))
         IN  IF q[Len(q)] \in Range(init) THEN init ELSE Append(init, q[Len(q)])

RECURSIVE Concat(_)
Concat(qs) == IF qs = << >> THEN << >> ELSE Head(qs) \o Concat(Tail(qs))

\* variant: the labeling is attached row by row, whatever its index says
MergeByPosition(left, right, col) ==
    [ k \in DOMAIN left |->
        [ left[k] EXCEPT ![col] = IF k <= Len(right) THEN right[k].cluster ELSE NaN ] ]

\* lines 85, 87: df.merge(..., on='index', how='left'); a left row without
\* partner keeps a missing cluster, one with several partners is repeated
MergeLeft(left, right, col) ==
    Concat([ k \in DOMAIN left |->
        LET partners == SelectSeq(right, LAMBDA r : r.index = left[k].index)
        IN  IF partners = << >> THEN << [ left[k] EXCEPT ![col] = NaN ] >>
            ELSE [ j \in DOMAIN partners |->
                     [ left[k] EXCEPT ![col] = partners[j].cluster ] ] ])

\* lines 90-98.  The result is the set of mappings the majority vote can
\* give: value_counts().idxmax() takes a most frequent label, and which one
\* of several is left to the library.
build_mapping(table, cluster_col) ==
    IF cluster_col \notin table.columns THEN { << >> }
    ELSE LET groups == SelectSeq(table.rows, LAMBDA r :
                           r[cluster_col] # NaN /\ r.primary_label_canonical # NaN)
             Count(c, m) == Cardinality({ k \in DOMAIN groups :
                               /\ groups[k][cluster_col] = c
                               /\ groups[k].primary_label_canonical = m })
         IN  { mapping \in [ { r[cluster_col] : r \in Range(groups) } -> Range(MOTIFS) ] :
                 \A c \in DOMAIN mapping : \A m \in Range(MOTIFS) :
                     Count(c, mapping[c]) >= Count(c, m) }

\* lines 111-114, 117, 119: the column series.map(mapping)
apply_map(table, col, mapped_col, mapping) ==
    [ columns |-> table.columns \cup { mapped_col },
      rows |-> [ k \in DOMAIN table.rows |->
                   [ table.rows[k] EXCEPT ![mapped_col] =
                       IF table.rows[k][col] \in DOMAIN mapping
                       THEN mapping[table.rows[k][col]] ELSE NaN ] ] ]

\* lines 133-141
compute_agreement(table, col_parse) ==
    LET sub == SelectSeq(table.rows, LAMBDA r :
                   r.primary_label_canonical # NaN /\ r[col_parse] # NaN)
    IN  IF sub = << >> THEN << "NA", "NA" >> ELSE << "float", "float" >>

\* lines 143-153
AgreementOf(table, col_parse) ==
    IF col_parse \in table.columns THEN compute_agreement(table, col_parse)
    ELSE << "NA", "NA" >>

\* lines 122-128: the median and the interquartile range of the stability
\* column, nan without the column or without rows
StabilityStat(table) ==
    IF "stability_fraction_first" \in table.columns /\ table.rows # << >>
    THEN "float" ELSE "nan"

\* variant: only the rows that have a mapped label are counted
per_motif_preservation_mapped_only(table, col_parse) ==
    LET motifs == SelectSeq(MOTIFS, LAMBDA m :
                      \E r \in Range(table.rows) : r.primary_label_canonical = m)
    IN  [ k \in DOMAIN motifs |->
            LET subset == SelectSeq(table.rows, LAMBDA r :
                              /\ r.primary_label_canonical = motifs[k]
                              /\ r[col_parse] # NaN)
                denom == Len(subset)
            IN  [ motif |-> motifs[k],
                  count_in_canonical |-> denom,
                  fraction_preserved |->
                      IF denom = 0 THEN NoFraction
                      ELSE Frac(Len(SelectSeq(subset,
                                   LAMBDA r : r[col_parse] = motifs[k])), denom) ] ]

\* lines 156-170: the rows of the returned frame
per_motif_preservation(table, col_parse) ==
    LET motifs == SelectSeq(MOTIFS, LAMBDA m :
                      \E r \in Range(table.rows) : r.primary_label_canonical = m)
    IN  [ k \in DOMAIN motifs |->
            LET subset == SelectSeq(table.rows, LAMBDA r :
                              r.primary_label_canonical = motifs[k])
                denom == Len(subset)
            IN  [ motif |-> motifs[k],
                  count_in_canonical |-> denom,
                  fraction_preserved |->
                      IF denom = 0 \/ col_parse \notin table.columns THEN NoFraction
                      ELSE Frac(Len(SelectSeq(subset,
                                   LAMBDA r : r[col_parse] = motifs[k])), denom) ] ]

\* lines 172-173
PreservationOf(table, col_parse) ==
    IF col_parse \in table.columns THEN Frame(per_motif_preservation(table, col_parse))
    ELSE NoFrame

OUT_SUM == "segmentation_agreement_mapped.csv"

InitAgreement == Idle /\ pc = "start"

\* lines 31-35: the three files are read; without the canonical one the
\* script exits
LoadFiles ==
    /\ pc = "start"
    /\ \E can \in CanonFiles, fa \in ParseFilesA, fb \in ParseFilesB :
        /\ df_can' = can
        /\ df_a' = fa
        /\ df_b' = fb
        /\ pc' = IF can.exists THEN "merge" ELSE "exit"
    /\ UNCHANGED << epcall, df, map_a, map_b, results, preserve_pa, preserve_pb >>
    /\ UNCHANGED aggvars
    /\ UNCHANGED iovars
    /\ UNCHANGED summary_rows
    /\ UNCHANGED << rows, K, i, perm, violated, baseline_label, any_label, same_count,
                    modal_counts, s, order, lab, stability, modal_label, perms, draws,
                    run, prev_perms, labs >>

\* lines 83-87: df, the canonical rows with the cluster of each labeling
merged_frame(can, fa, fb) ==
    LET base == [ k \in DOMAIN can.rows |->
                    [ index |-> can.rows[k].index,
                      primary_label_canonical |-> can.rows[k].label,
                      cluster_parseA |-> NaN, cluster_parseB |-> NaN,
                      parseA_mapped |-> NaN, parseB_mapped |-> NaN ] ]
        with_a == IF fa.exists
                  THEN MergeLeft(base, drop_duplicates(fa.rows), "cluster_parseA")
                  ELSE base
    IN  [ columns |->
            { "index", "primary_label_canonical" }
            \cup (IF can.stability THEN { "stability_fraction_first" } ELSE {})
            \cup (IF fa.exists THEN { "cluster_parseA" } ELSE {})
            \cup (IF fb.exists THEN { "cluster_parseB" } ELSE {}),
          rows |->
            IF fb.exists
            THEN MergeLeft(with_a, drop_duplicates(fb.rows), "cluster_parseB")
            ELSE with_a ]

\* lines 83-87: df_a[['index','cluster']] raises KeyError on a frame that
\* has no such columns
MergeFrames ==
    /\ pc = "merge"
    /\ IF (df_a.exists /\ ~df_a.keyed) \/ (df_b.exists /\ ~df_b.keyed)
       THEN /\ pc' = "raised"
            /\ df' = df
       ELSE /\ pc' = "map"
            /\ df' = merged_frame(df_can, df_a, df_b)
    /\ UNCHANGED << epcall, df_can, df_a, df_b, map_a, map_b, results, preserve_pa,
                    preserve_pb >>
    /\ UNCHANGED aggvars
    /\ UNCHANGED iovars
    /\ UNCHANGED summary_rows
    /\ UNCHANGED << rows, K, i, perm, violated, baseline_label, any_label, same_count,
                    modal_counts, s, order, lab, stability, modal_label, perms, draws,
                    run, prev_perms, labs >>

\* lines 100-119: the two mappings, applied only when they are not empty;
\* df['cluster_parseA'] raises KeyError when df has no such column
MapLabels ==
    /\ pc = "map"
    /\ map_a' \in build_mapping(df, "cluster_parseA")
    /\ map_b' \in build_mapping(df, "cluster_parseB")
    /\ IF \/ DOMAIN map_a' # {} /\ "cluster_parseA" \notin df.columns
          \/ DOMAIN map_b' # {} /\ "cluster_parseB" \notin df.columns
       THEN /\ pc' = "raised"
            /\ df' = df
       ELSE /\ pc' = "report"
            /\ \E with_a \in { IF DOMAIN map_a' # {}
                               THEN apply_map(df, "cluster_parseA", "parseA_mapped",
                                              map_a')
                               ELSE df } :
                  df' = IF DOMAIN map_b' # {}
                        THEN apply_map(with_a, "cluster_parseB", "parseB_mapped", map_b')
                        ELSE with_a
    /\ UNCHANGED << epcall, df_can, df_a, df_b, results, preserve_pa, preserve_pb >>
    /\ UNCHANGED aggvars
    /\ UNCHANGED iovars
    /\ UNCHANGED summary_rows
    /\ UNCHANGED << rows, K, i, perm, violated, baseline_label, any_label, same_count,
                    modal_counts, s, order, lab, stability, modal_label, perms, draws,
                    run, prev_perms, labs >>

\* lines 121-176: the results, the preservation tables, the summary file
Report ==
    /\ pc = "report"
    /\ results' =
         [ median_stability_fraction |-> StabilityStat(df),
           iqr_stability_fraction |-> StabilityStat(df),
           ari_canonical_parseA |-> AgreementOf(df, "parseA_mapped")[1],
           kappa_canonical_parseA |-> AgreementOf(df, "parseA_mapped")[2],
           ari_canonical_parseB |-> AgreementOf(df, "parseB_mapped")[1],
           kappa_canonical_parseB |-> AgreementOf(df, "parseB_mapped")[2] ]
    /\ preserve_pa' = PreservationOf(df, "parseA_mapped")
    /\ preserve_pb' = PreservationOf(df, "parseB_mapped")
    /\ written' = written \cup { OUT_SUM }
    /\ pc' = "done"
    /\ UNCHANGED << epcall, df_can, df_a, df_b, df, map_a, map_b >>
    /\ UNCHANGED << kw_files, write_debug >>
    /\ UNCHANGED aggvars
    /\ UNCHANGED summary_rows
    /\ UNCHANGED << rows, K, i, perm, violated, baseline_label, any_label, same_count,
                    modal_counts, s, order, lab, stability, modal_label, perms, draws,
                    run, prev_perms, labs >>

NextAgreement == LoadFiles \/ MergeFrames \/ MapLabels \/ Report

SpecAgreement == InitAgreement /\ [][NextAgreement]_vars

(***************************************************************************)
(* Properties.                                                             *)
(***************************************************************************)
Occurrences(q, l) == Cardinality({ k \in DOMAIN q : q[k] = l })

FirstIndex(q, l) == CHOOSE k \in DOMAIN q : q[k] = l /\ \A j \in 1 .. k - 1 : q[j] # l

SampledRecords == Cardinality({ k \in DOMAIN perms : perms[k].violated_covers # << >> })

\* C1: for a fixed violated set, classify_first_violated returns under every
\* check-order the label it returns under the baseline order COVERS, so the
\* check-order scan never changes which rule fires.
C1_CheckOrderIrrelevant ==
    pc \in { "any", "classified" } => lab = classify_first_violated(violated, COVERS)

\* a violated block cover precedes every violated front cover in the check-order,
\* and the front rule fires all the same
C1_Witness ==
    /\ pc = "classified"
    /\ Cardinality(violated) < 4
    /\ AnyIn(violated, FRONT)
    /\ order[FirstHit(violated, order, CoverSet)] \in BRE_SET
    /\ lab = "FrontEndMove"

\* C2: compute_violated_covers_from_perm returns exactly the covers (a,b) of
\* COVERS whose two endpoints occur in the permutation with a at a later
\* position than b; the result is a subset of COVERS and holds no cover with
\* an absent endpoint.
C2_ViolatedExactly ==
    pc = "detected" =>
        /\ violated = { c \in CoverSet :
                \E a, b \in DOMAIN perm : perm[a] = c[1] /\ perm[b] = c[2] /\ a > b }
        /\ violated \subseteq CoverSet
        /\ \A c \in violated :
                (\E a \in DOMAIN perm : perm[a] = c[1]) /\ (\E b \in DOMAIN perm : perm[b] = c[2])

\* the permutation violates a cover and lacks the first endpoint of another
\* cover whose second endpoint it holds
C2_Witness ==
    /\ pc = "detected"
    /\ violated # {}
    /\ \E c \in CoverSet \ violated : InPos(perm, c[2]) /\ ~InPos(perm, c[1])

\* C3: with 4 or more violated covers both classifiers return GlobalDistortion,
\* under any check-order; with fewer than 4 neither does.
C3_GlobalDistortionIffFour ==
    pc = "classified" =>
        /\ (lab = "GlobalDistortion") <=> (Cardinality(violated) >= 4)
        /\ (any_label = "GlobalDistortion") <=> (Cardinality(violated) >= 4)

\* exactly 4 violated covers, check-order other than the baseline
C3_Witness ==
    /\ pc = "classified"
    /\ Cardinality(violated) = 4
    /\ order # COVERS
    /\ lab = "GlobalDistortion"
    /\ any_label = "GlobalDistortion"

\* C4: a violated set of fewer than 4 covers that holds a front cover is
\* labelled FrontEndMove by both classifiers under every check-order; the
\* permutation 3 1 2 4 has violated set {(1,3)} and label FrontEndMove.
C4_FrontEndMove ==
    /\ (pc = "classified" /\ Cardinality(violated) < 4 /\ violated \cap FRONT # {})
            => (lab = "FrontEndMove" /\ any_label = "FrontEndMove")
    /\ (pc # "input" /\ perm = << 3, 1, 2, 4 >>) => violated = { << 1, 3 >> }

\* the permutation 3 1 2 4, classified
C4_Witness ==
    /\ pc = "classified"
    /\ perm = << 3, 1, 2, 4 >>
    /\ violated = { << 1, 3 >> }
    /\ order # COVERS
    /\ lab = "FrontEndMove"
    /\ any_label = "FrontEndMove"

C6_AnchorPreservingOrOther ==
    pc = "classified" =>
        \A l \in { lab, any_label } :
            /\ (l = "AnchorPreservingDisorder") <=>
                    /\ violated # {}
                    /\ Cardinality(violated) < 4
                    /\ violated \cap FRONT = {}
                    /\ violated \cap BRE_SET = {}
            /\ (l = "Other") <=> (violated = {})

\* the three late covers violated, under a check-order other than the baseline
C6_Witness ==
    /\ pc = "classified"
    /\ violated = LATE
    /\ order # COVERS
    /\ lab = "AnchorPreservingDisorder"
    /\ any_label = "AnchorPreservingDisorder"

\* C7: a row with no violated cover gets stability 1.0 and the baseline label
\* as modal label, for every K, and no check-order is drawn for it: the
\* shuffles drawn so far are the K of each earlier row with a violated cover.
C7_EmptyViolatedStable ==
    /\ (pc = "append" /\ violated = {}) =>
            /\ stability = One
            /\ modal_label = baseline_label
            /\ draws = K * SampledRecords
    /\ \A k \in DOMAIN perms :
            perms[k].violated_covers = << >> =>
                /\ perms[k].stability_fraction_first = One
                /\ perms[k].modal_label_first = perms[k].baseline_first_label

\* an unviolated second row, after a first row that was sampled twice
C7_Witness ==
    /\ pc = "append"
    /\ violated = {}
    /\ i = 1
    /\ K = 2
    /\ draws = 2
    /\ same_count = 2
    /\ stability = One
    /\ modal_label = "Other"

\* C8: the stability fraction of a sampled row is the number of its K sampled
\* labels equal to the baseline label, divided by K, and lies in [0,1]; during
\* sampling same_count never exceeds the number of samples drawn.
C8_StabilityFraction ==
    /\ same_count <= s
    /\ pc = "loop" => same_count = Occurrences(labs, baseline_label) /\ Len(labs) = s
    /\ (pc = "append" /\ violated # {}) =>
            /\ Len(labs) = K
            /\ stability = Frac(Occurrences(labs, baseline_label), K)
    /\ \A k \in DOMAIN perms :
            LET f == perms[k].stability_fraction_first
            IN  0 <= f[1] /\ f[1] <= f[2] /\ f[2] >= 1

\* a row sampled with K = 2, both samples counted
C8_Witness ==
    /\ pc = "append"
    /\ violated # {}
    /\ K = 2
    /\ s = 2
    /\ same_count = 2
    /\ stability = One

\* C9: the modal label occurs at least as often among the sampled labels as
\* every other label, and among the labels with that count it is the one
\* sampled first.
C9_ModalFirstMaximum ==
    pc = "picked" =>
        /\ Occurrences(labs, modal_label) >= 1
        /\ \A l \in LABELS : Occurrences(labs, l) <= Occurrences(labs, modal_label)
        /\ \A l \in LABELS :
                (l # modal_label /\ Occurrences(labs, l) = Occurrences(labs, modal_label))
                    => FirstIndex(labs, modal_label) < FirstIndex(labs, l)

\* two labels tie for the maximum; a third sample belongs to neither
C9_Witness ==
    /\ pc = "picked"
    /\ Len(labs) = 3
    /\ \E l \in LABELS : l # modal_label /\ Occurrences(labs, l) = Occurrences(labs, modal_label)

\* C10: a second execution over the same table with the same K, drawing its
\* check-orders independently of the first, writes the same stability records;
\* in particular the stability fractions of a row differ by less than 0.05.
C10_Reproducible ==
    (pc = "done" /\ run = 2) =>
        /\ perms = prev_perms
        /\ \A k \in DOMAIN perms :
                LET f == perms[k].stability_fraction_first
                    g == prev_perms[k].stability_fraction_first
                    d == f[1] * g[2] - g[1] * f[2]
                IN  20 * (IF d < 0 THEN 0 - d ELSE d) < f[2] * g[2]

\* both executions finished over a table of two sampled rows, K = 2
C10_Witness ==
    /\ pc = "done"
    /\ run = 2
    /\ K = 2
    /\ Len(perms) = 2
    /\ draws = 4
    /\ Len(prev_perms) = 2
    /\ perms[1].baseline_first_label # perms[2].baseline_first_label


\* the Counter of a label sequence tallied in order
RECURSIVE CounterOf(_)
CounterOf(ls) ==
    IF ls = << >> THEN << >>
    ELSE CounterAdd(CounterOf(SubSeq(ls, 1, Len(ls) - 1)), ls[Len(ls)])

\* labels the sampling loop can draw for a violated set
SampledLabels(v) == { classify_first_violated(v, o) : o \in Orders }

\* every record the script can produce for a table made of the one row `row`
\* (index 0), with k samples
RowRecords(row, k) ==
    LET v == compute_violated_covers_from_perm(parse_perm(row))
        base == classify_first_violated(v, COVERS)
        rec(stab, modal) ==
            [ index |-> 0,
              perm_str |-> row,
              violated_covers |-> SortedCovers(v),
              baseline_first_label |-> base,
              any_cover_label |-> classify_any_cover(v),
              stability_fraction_first |-> stab,
              modal_label_first |-> modal ]
    IN  IF v = {} THEN { rec(One, base) }
        ELSE { rec(Frac(Occurrences(ls, base), k), MostCommon(CounterOf(ls))) :
                   ls \in [1 .. k -> SampledLabels(v)] }

\* the same, tabulated for the rows and sample counts of the model
SingleRowRecords ==
    [ row \in RowStrings |-> [ k \in 1 .. MaxK |-> RowRecords(row, k) ] ]

\* C11: the record of a row is one the script produces for that row alone,
\* whatever the other rows of the table are, wherever the row stands and
\* however many check-orders earlier rows drew from the shared generator; the
\* records are emitted in ascending permutation index.
C11_RowIndependent ==
    \A k \in DOMAIN perms :
        /\ perms[k].index = k - 1
        /\ [ perms[k] EXCEPT !.index = 0 ] \in SingleRowRecords[rows[k]][K]

\* a finished run over two different sampled rows, the second one sampled
\* after the first row drew from the generator
C11_Witness ==
    /\ pc = "done"
    /\ Len(perms) = 2
    /\ rows[1] # rows[2]
    /\ \A k \in 1 .. 2 : perms[k].violated_covers # << >>
    /\ draws = 2 * K
    /\ perms[2].index = 1

\* C12: parse_perm returns the integer tokens of the text, in order, whether
\* the tokens are separated by whitespace or by ';', tokens that are no
\* numbers left out.
C12_BothSeparatorsParse ==
    pc = "parsed" => perm = IntTokens(parse_call.tokens)

\* the whitespace form alone is parsed as stated
C12_WhitespaceParse ==
    (pc = "parsed" /\ parse_call.sep = " ") => perm = IntTokens(parse_call.tokens)

\* C13: jaccard(A, B) = jaccard(B, A) for all sets, jaccard(A, A) = 1.0 for
\* every non-empty A, and jaccard of two empty sets is 1.0.
C13_JaccardSymmetric ==
    pc = "called" =>
        /\ jcall.ab = jcall.ba
        /\ (jcall.a = jcall.b /\ jcall.a # {}) => jcall.ab = One
        /\ (jcall.a = {} /\ jcall.b = {}) => jcall.ab = One

\* two different overlapping sets of different sizes: 1/3 in both directions
C13_Witness ==
    /\ pc = "called"
    /\ Cardinality(jcall.a) = 1
    /\ Cardinality(jcall.b) = 3
    /\ jcall.a \subseteq jcall.b
    /\ jcall.ab = << 1, 3 >>
    /\ jcall.ba = << 1, 3 >>

\* C14: jaccard never divides by zero; it returns |A n B| / |A u B| when the
\* union is non-empty and 1.0 when both sets are empty, so the result lies
\* in [0,1], is 0 exactly when A and B are disjoint and not both empty, and
\* is 1 exactly when A = B.
C14_JaccardTotal ==
    pc = "called" =>
        LET a == jcall.a
            b == jcall.b
            val == jcall.ab
        IN  /\ val # ZeroDivisionError
            /\ val[2] > 0
            /\ (a \cup b) # {} =>
                   val[1] * Cardinality(a \cup b) = val[2] * Cardinality(a \cap b)
            /\ (a \cup b) = {} => val = One
            /\ FracLeq(Zero, val) /\ FracLeq(val, One)
            /\ val = Zero <=> ((a \cap b) = {} /\ (a \cup b) # {})
            /\ val = One <=> a = b

\* the call where the union is empty, and a call on disjoint non-empty sets
C14_Witness ==
    /\ pc = "called"
    /\ \/ jcall.a = {} /\ jcall.b = {} /\ jcall.ab = One
       \/ jcall.a = { 1 } /\ jcall.b = { 2, 3 } /\ jcall.ab = Zero

\* vertices of the k-th component returned
ComponentSet(k) == Range(components[k])

\* the pair list holds an edge between v and w: a value >= threshold
PairEdge(v, w) ==
    \E k \in DOMAIN pairs :
        /\ { pairs[k][1], pairs[k][2] } = { v, w }
        /\ pairs[k][3][1] * threshold[2] >= threshold[1] * pairs[k][3][2]

\* C15: the components returned by build_graph_components partition the
\* vertex set 0 .. n-1: every vertex is in exactly one component, once; the
\* components are non-empty and pairwise disjoint; a vertex without a
\* neighbour is a component of its own.
C15_ComponentsPartition ==
    pc = "called" =>
        /\ \A v \in 0 .. n_nodes - 1 :
              Cardinality({ k \in DOMAIN components : v \in ComponentSet(k) }) = 1
        /\ \A k \in DOMAIN components :
              /\ components[k] # << >>
              /\ ComponentSet(k) \subseteq 0 .. n_nodes - 1
              /\ Cardinality(ComponentSet(k)) = Len(components[k])
        /\ \A k, l \in DOMAIN components :
              k # l => ComponentSet(k) \cap ComponentSet(l) = {}
        /\ \A v \in 0 .. n_nodes - 1 :
              (\A w \in 0 .. n_nodes - 1 : ~PairEdge(v, w)) =>
                  \E k \in DOMAIN components : components[k] = << v >>

\* four vertices: 0, 2, 3 joined through 0, vertex 1 without a neighbour
C15_Witness ==
    /\ pc = "called"
    /\ n_nodes = 4
    /\ components = << << 0, 2, 3 >>, << 1 >> >>
    /\ ~PairEdge(2, 3)

InSeq(q, x) == \E k \in DOMAIN q : q[k] = x

Ascending(q) == \A k \in 1 .. Len(q) - 1 : q[k] < q[k + 1]

\* the sets a and b have Jaccard similarity >= threshold (neither is empty)
Similar(a, b) ==
    Cardinality(a \cap b) * threshold[2] >= threshold[1] * Cardinality(a \cup b)

\* the index set of vertex v, and of the cluster with a given key
VertexSet(v) == cluster_list[v + 1].perm_indices

KeySet(key) ==
    LET k == CHOOSE l \in DOMAIN cluster_list :
                 << cluster_list[l].run_id, cluster_list[l].cluster_id >> = key
    IN  cluster_list[k].perm_indices

\* everything reachable from the elements of S along the pairs of E
RECURSIVE Closure(_, _)
Closure(S, E) ==
    LET more == S \cup { e[2] : e \in { d \in E : d[1] \in S } }
    IN  IF more = S THEN S ELSE Closure(more, E)

\* the edges the similarity of the loaded clusters defines
SimilarityEdges ==
    { e \in (0 .. Len(cluster_list) - 1) \X (0 .. Len(cluster_list) - 1) :
        e[1] # e[2] /\ Similar(VertexSet(e[1]), VertexSet(e[2])) }

\* C16: two distinct clusters are adjacent iff their Jaccard similarity is
\* >= the threshold (inclusive), adjacency is symmetric and has no self-loop,
\* and two clusters are in the same component iff a path of such edges joins
\* them.
C16_AdjacencyAndPaths ==
    pc \in { "consensus", "done" } =>
        \A edges \in { SimilarityEdges } :
            \A v \in 0 .. n_nodes - 1 :
                \A reached \in { Closure({ v }, edges) } :
                    \A w \in 0 .. n_nodes - 1 :
                        /\ InSeq(adj[v + 1], w) <=> (<< v, w >> \in edges)
                        /\ InSeq(adj[v + 1], w) <=> InSeq(adj[w + 1], v)
                        /\ ~InSeq(adj[v + 1], v)
                        /\ (\E k \in DOMAIN components : { v, w } \subseteq ComponentSet(k))
                               <=> (w \in reached)

\* an edge whose similarity equals the threshold, and two clusters of one
\* component joined only by a path of two edges
C16_Witness ==
    /\ pc = "done"
    /\ \E v, w \in 0 .. n_nodes - 1 :
          /\ InSeq(adj[v + 1], w)
          /\ jaccard(VertexSet(v), VertexSet(w)) = threshold
    /\ \E v, w \in 0 .. n_nodes - 1 :
          /\ v # w
          /\ ~InSeq(adj[v + 1], w)
          /\ \E k \in DOMAIN components : { v, w } \subseteq ComponentSet(k)

\* C17 as stated: any two member clusters of one consensus group have Jaccard
\* similarity >= the threshold.
C17_MutuallySimilar ==
    \A g \in DOMAIN consensus_groups :
        \A A, B \in Range(consensus_groups[g].member_clusters) :
            Similar(KeySet(A), KeySet(B))

\* C17: any two member clusters of one consensus group are joined by a chain
\* of member clusters of that group in which each cluster and the next have
\* Jaccard similarity >= the threshold.
C17_ChainSimilar ==
    \A g \in DOMAIN consensus_groups :
        LET members == Range(consensus_groups[g].member_clusters)
        IN  \A links \in { { e \in members \X members :
                                Similar(KeySet(e[1]), KeySet(e[2])) } } :
                \A A \in members : members \subseteq Closure({ A }, links)

\* a written group with two members whose own similarity is below the threshold
C17_Witness ==
    /\ pc = "done"
    /\ \E g \in DOMAIN consensus_groups :
          \E A, B \in Range(consensus_groups[g].member_clusters) :
              ~Similar(KeySet(A), KeySet(B))

\* C18: each component's vertex list is sorted ascending, the components come
\* in ascending order of their smallest vertex, and row k of
\* consensus_motifs.csv carries the position k (from 0) of component k as its
\* consensus_id.
C18_DiscoveryOrder ==
    pc = "done" =>
        /\ \A k \in DOMAIN components : Ascending(components[k])
        /\ \A k \in 1 .. Len(components) - 1 :
              \A w \in ComponentSet(k + 1) : \E v \in ComponentSet(k) : v < w
        /\ Len(consensus_csv) = Len(components)
        /\ \A k \in DOMAIN consensus_csv :
              /\ consensus_csv[k].consensus_id = k - 1
              /\ consensus_csv[k].member_clusters =
                     [ l \in DOMAIN components[k] |->
                         << cluster_list[components[k][l] + 1].run_id,
                            cluster_list[components[k][l] + 1].cluster_id >> ]

\* two groups written, the first found by a DFS that pops vertex 3 before
\* vertex 2
C18_Witness ==
    /\ pc = "done"
    /\ components = << << 0, 2, 3 >>, << 1 >> >>
    /\ adj[1] = << 2, 3 >>
    /\ consensus_csv[2].consensus_id = 1

\* the permutation indices of the model and of the loaded clusters
PermIndices ==
    (1 .. MaxIdx) \cup UNION { cluster_list[k].perm_indices : k \in DOMAIN cluster_list }

\* number of member clusters of group g holding permutation index p
MemberCount(g, p) ==
    Cardinality({ k \in DOMAIN consensus_groups[g].member_clusters :
                    p \in KeySet(consensus_groups[g].member_clusters[k]) })

\* C19: in a group of m member clusters a permutation index is in the
\* consensus set iff it occurs in at least ceil(fraction * m) of the members'
\* index sets; for fraction 1/2 that count is 2 when m is 3 or 4; the
\* consensus list is sorted ascending and lies within the union of the
\* members' index sets.
C19_ConsensusCount ==
    \A g \in DOMAIN consensus_groups :
        LET grp == consensus_groups[g]
            m == grp.n_member_clusters
            union == UNION { KeySet(A) : A \in Range(grp.member_clusters) }
            need == CHOOSE c \in 0 .. m :
                        /\ c * fraction[2] >= fraction[1] * m
                        /\ (c - 1) * fraction[2] < fraction[1] * m
        IN  /\ \A p \in PermIndices :
                  InSeq(grp.consensus_perms, p) <=> MemberCount(g, p) >= need
            /\ (fraction = << 1, 2 >> /\ m \in { 3, 4 }) =>
                  \A p \in PermIndices :
                      InSeq(grp.consensus_perms, p) <=> MemberCount(g, p) >= 2
            /\ Ascending(grp.consensus_perms)
            /\ Range(grp.consensus_perms) \subseteq union

\* fraction 1/2 and a group of three members: an index held by one member is
\* left out, an index held by all three is kept
C19_Witness ==
    /\ fraction = << 1, 2 >>
    /\ \E g \in DOMAIN consensus_groups :
          /\ consensus_groups[g].n_member_clusters = 3
          /\ \E p, q \in 1 .. MaxIdx :
                /\ MemberCount(g, p) = 1
                /\ ~InSeq(consensus_groups[g].consensus_perms, p)
                /\ MemberCount(g, q) = 3
                /\ InSeq(consensus_groups[g].consensus_perms, q)

\* C20: the fragmentation of a group is the number of distinct run ids among
\* its member clusters, so 1 <= fragmentation <= n_member_clusters, and
\* n_member_clusters is the size of the component.
C20_Fragmentation ==
    \A g \in DOMAIN consensus_groups :
        LET grp == consensus_groups[g]
        IN  /\ grp.fragmentation =
                   Cardinality({ A[1] : A \in Range(grp.member_clusters) })
            /\ 1 <= grp.fragmentation
            /\ grp.fragmentation <= grp.n_member_clusters
            /\ grp.n_member_clusters = Len(components[g])
            /\ grp.n_member_clusters = Cardinality(Range(grp.member_clusters))

\* a group of three clusters from two runs
C20_Witness ==
    \E g \in DOMAIN consensus_groups :
        /\ consensus_groups[g].n_member_clusters = 3
        /\ consensus_groups[g].fragmentation = 2
        /\ consensus_groups[g].runs_represented = << 1, 2 >>

\* C25: the priority classifier and the order-invariant classifier agree: for
\* every violated set and every check-order, classify_first_violated returns
\* the label classify_any_cover returns.
C25_ClassifiersAgree ==
    pc = "classified" => lab = any_label

\* a set holding a front cover and a block cover, the block cover standing
\* first in the check-order
C25_Witness ==
    /\ pc = "classified"
    /\ Cardinality(violated) < GD_THRESHOLD
    /\ FirstHit(violated, order, FRONT) # 0
    /\ FirstHit(violated, order, BRE_SET) # 0
    /\ FirstHit(violated, order, BRE_SET) < FirstHit(violated, order, FRONT)
    /\ lab = "FrontEndMove"
    /\ any_label = "FrontEndMove"

\* C26: neither classify_first_violated, under any check-order, nor
\* classify_any_cover returns DualClusterOutlier for any violated set.
C26_DualClusterUnreachable ==
    /\ pc \in { "any", "classified" } => lab # "DualClusterOutlier"
    /\ pc = "classified" => any_label # "DualClusterOutlier"

\* fewer than four violated covers, an early one and a late one among them,
\* and no block cover: the case rule 4 names, labelled by rule 2
C26_Witness ==
    /\ pc = "classified"
    /\ Cardinality(violated) < GD_THRESHOLD
    /\ AnyIn(violated, EARLY)
    /\ AnyIn(violated, LATE)
    /\ ~AnyIn(violated, BRE_SET)
    /\ lab = "FrontEndMove"
    /\ any_label = "FrontEndMove"

\* C27: at every step of the sampling loop same_count is the number of samples
\* drawn; every record has stability_fraction_first = 1.0 and
\* modal_label_first = baseline_first_label; the summary counts no row as
\* unstable.
C27_AlwaysStable ==
    /\ pc = "loop" => same_count = s
    /\ \A k \in DOMAIN perms :
          /\ perms[k].stability_fraction_first = One
          /\ perms[k].modal_label_first = perms[k].baseline_first_label
    /\ \A r \in summary_rows :
          /\ r.unstable_count = 0
          /\ r.fraction_unstable = << 0, 1 >>

\* a finished run with two sampled rows of one label, K >= 2 shuffles each
C27_Witness ==
    /\ pc = "done"
    /\ K >= 2
    /\ SampledRecords = 2
    /\ draws = 2 * K
    /\ \E r \in summary_rows : r.total_rows = 2 /\ r.unstable_count = 0

\* the clusters of the two-run scenario are loaded, threshold and fraction 1/2
ScenarioLoaded ==
    /\ kw_files.present
    /\ kw_files.members = ScenarioMembers
    /\ threshold = << 1, 2 >>
    /\ fraction = << 1, 2 >>

\* C21: for (run 1, {1,2,3,4}) and (run 2, {1,2,3,5}) with threshold 1/2 and
\* fraction 1/2 the pipeline yields the one pair with Jaccard 3/5, exactly one
\* consensus group, of 2 member clusters, with fragmentation 2 and consensus
\* set {1,2,3,4,5}.
C21_TwoRunScenario ==
    (ScenarioLoaded /\ pc = "done") =>
        /\ pairs = << << 0, 1, << 3, 5 >> >> >>
        /\ components = << << 0, 1 >> >>
        /\ Len(consensus_groups) = 1
        /\ consensus_groups[1].member_clusters = << << 1, 0 >>, << 2, 0 >> >>
        /\ consensus_groups[1].n_member_clusters = 2
        /\ consensus_groups[1].fragmentation = 2
        /\ consensus_groups[1].consensus_perms = << 1, 2, 3, 4, 5 >>
        /\ consensus_groups[1].mean_pairwise_jaccard = << 3, 5 >>

\* the scenario has run to its end
C21_Witness ==
    /\ ScenarioLoaded
    /\ pc = "done"
    /\ Len(cluster_list) = 2
    /\ consensus_csv[1].n_consensus_perms = 5

\* C22: when no membership file is found or a membership row does not parse,
\* the run aborts in load_cluster_members and no output table is ever written;
\* a table is written only after loading has succeeded.
C22_NoOutputOnLoadFailure ==
    /\ (pc # "load" /\ (~kw_files.present \/ kw_files.bad_row)) =>
           (pc = "aborted" /\ written = {})
    /\ written # {} =>
           /\ kw_files.present
           /\ ~kw_files.bad_row
           /\ pc \in { "components", "consensus", "done" }
    /\ pc = "done" => OUTPUT_TABLES \subseteq written

\* an aborted run with --write-debug: either no file, or a row that fails
\* to parse among rows that would have made clusters
C22_Witness ==
    /\ pc = "aborted"
    /\ write_debug
    /\ written = {}
    /\ \/ ~kw_files.present
       \/ kw_files.bad_row /\ \E k \in DOMAIN kw_files.members : kw_files.members[k] # {}

\* the event sequence a permutation string was written from
EventsOf(text) == (CHOOSE src \in PermSources : src.text = text).events

RECURSIVE SumSeq(_)
SumSeq(q) == IF q = << >> THEN 0 ELSE Head(q) + SumSeq(Tail(q))

RECURSIVE ProductSeq(_)
ProductSeq(q) == IF q = << >> THEN 1 ELSE Head(q) * ProductSeq(Tail(q))

\* C28: compute_event_position_stats returns the empty result when a
\* consensus index has no permutation string; otherwise it has one entry for
\* exactly each event of some consensus permutation, the mean over the
\* permutations holding the event of (first index) / max(1, length - 1), each
\* of these positions and the mean lying in [0,1].
C28_PositionsAllOrNothing ==
    pc = "called" =>
        LET cp == epcall.consensus_perms
            strs == epcall.perm_index_to_string
            res == epcall.pos_stats
            lists == [ k \in DOMAIN cp |-> EventsOf(strs[cp[k]]) ]
        IN  IF \E k \in DOMAIN cp : cp[k] \notin DOMAIN strs
            THEN res = << >>
            ELSE /\ DOMAIN res = UNION { Range(lists[k]) : k \in DOMAIN lists }
                 /\ \A e \in DOMAIN res :
                       LET holding == SelectSeq(lists, LAMBDA q : e \in Range(q))
                           idx == [ k \in DOMAIN holding |-> IndexOf(holding[k], e) ]
                           den == [ k \in DOMAIN holding |->
                                      IF Len(holding[k]) > 2 THEN Len(holding[k]) - 1
                                      ELSE 1 ]
                           scaled == [ k \in DOMAIN holding |->
                                         idx[k] * (ProductSeq(den) \div den[k]) ]
                       IN  /\ holding # << >>
                           /\ \A k \in DOMAIN holding : 0 <= idx[k] /\ idx[k] <= den[k]
                           /\ res[e][2] > 0
                           /\ res[e][1] * Len(holding) * ProductSeq(den)
                                  = res[e][2] * SumSeq(scaled)
                           /\ 0 <= res[e][1] /\ res[e][1] <= res[e][2]

\* two consensus indices, the second without a string, the first with events
C28_Witness ==
    /\ pc = "called"
    /\ epcall.consensus_perms = << 1, 2 >>
    /\ DOMAIN epcall.perm_index_to_string = { 1 }
    /\ EventsOf(epcall.perm_index_to_string[1]) = << 1, 2, 3 >>
    /\ epcall.pos_stats = << >>

\* the two independent labelings: their mapped column, preservation table,
\* loaded file and result keys
Labelings ==
    { [ col |-> "parseA_mapped", pres |-> preserve_pa, file |-> df_a,
        ari |-> "ari_canonical_parseA", kappa |-> "kappa_canonical_parseA" ],
      [ col |-> "parseB_mapped", pres |-> preserve_pb, file |-> df_b,
        ari |-> "ari_canonical_parseB", kappa |-> "kappa_canonical_parseB" ] }

ScenarioPreservation ==
    << [ motif |-> "A", count_in_canonical |-> 2, fraction_preserved |-> << 1, 2 >> ],
       [ motif |-> "B", count_in_canonical |-> 2, fraction_preserved |-> << 1, 1 >> ] >>

\* C23: a preservation table has one row for each motif that labels some
\* row of the merged table; its count is the number of rows with that
\* canonical label, its fraction the number of these rows whose mapped label
\* is the motif over that count (rows with a missing mapped label are in the
\* count only), and lies in [0,1]; canonical [A,A,B,B] with mapped [A,B,B,B]
\* gives 1/2 for A and 2/2 for B.
C23_PreservationFraction ==
    pc = "done" =>
        \A side \in Labelings :
            side.pres.exists =>
                LET Labelled(M) == { k \in DOMAIN df.rows :
                                       df.rows[k].primary_label_canonical = M }
                    Kept(M) == { k \in Labelled(M) : df.rows[k][side.col] = M }
                    present == { M \in Range(MOTIFS) : Labelled(M) # {} }
                IN  /\ { r.motif : r \in Range(side.pres.rows) } = present
                    /\ Len(side.pres.rows) = Cardinality(present)
                    /\ \A r \in Range(side.pres.rows) :
                          /\ r.count_in_canonical = Cardinality(Labelled(r.motif))
                          /\ r.fraction_preserved[2] > 0
                          /\ r.fraction_preserved[1] * Cardinality(Labelled(r.motif))
                                 = r.fraction_preserved[2] * Cardinality(Kept(r.motif))
                          /\ 0 <= r.fraction_preserved[1]
                          /\ r.fraction_preserved[1] <= r.fraction_preserved[2]
                    /\ ( /\ [ k \in DOMAIN df.rows |-> df.rows[k].primary_label_canonical ]
                               = << "A", "A", "B", "B" >>
                         /\ [ k \in DOMAIN df.rows |-> df.rows[k][side.col] ]
                               = << "A", "B", "B", "B" >> )
                       => side.pres.rows = ScenarioPreservation

\* the scenario with the first labeling, and a second labeling that leaves
\* mapped labels missing
C23_Witness ==
    /\ pc = "done"
    /\ [ k \in DOMAIN df.rows |-> df.rows[k].primary_label_canonical ]
           = << "A", "A", "B", "B" >>
    /\ [ k \in DOMAIN df.rows |-> df.rows[k].parseA_mapped ] = << "A", "B", "B", "B" >>
    /\ preserve_pa.exists
    /\ preserve_pa.rows = ScenarioPreservation
    /\ preserve_pb.exists
    /\ \E k \in DOMAIN df.rows : df.rows[k].parseB_mapped = NaN

\* a labeling whose file is missing, or that shares no index with the
\* canonical table
Unjoined(file) ==
    \/ ~file.exists
    \/ /\ file.keyed
       /\ { r.index : r \in Range(file.rows) }
              \cap { r.index : r \in Range(df_can.rows) } = {}

====
